---- MODULE Spec2Model ----
(***************************************************************************)
(* Durable key-value store: the storage engine (kv_store/store.py) behind  *)
(* the standalone TCP server (server.py), with client-handler threads,     *)
(* process kills at every step and restarts on the same data directory;    *)
(* one node of the primary/secondary cluster (cluster_node.py) with its    *)
(* receiver and election threads; ClusterNode of replication.py; a         *)
(* three-node cluster with replication, a kill of the primary and the      *)
(* election; three masterless nodes (masterless_node.py); one client       *)
(* connection and one replication session line by line, from request bytes *)
(* to response bytes (protocol.py); the cluster client (cluster_client.py);*)
(* I/O errors of the file writes; the receiver of a masterless node with   *)
(* kills and restarts; one cluster node through several process lives; the *)
(* full-text index (kv_store/indexes.py); the replication stream read by   *)
(* read, and its idle timeout.                                             *)
(***************************************************************************)
EXTENDS Integers, Sequences, FiniteSets, TLC

(* ------------------------------ bounds -------------------------------- *)
\* mutating requests accepted over a whole run
MaxOps == 3
\* process kills over a whole run
MaxKills == 2
\* longest item list of a bulk_set request
MaxItems == 2

Keys == {"a", "b"}
Threads == {"t1", "t2"}

\* Every request writes values no other request writes (as the repository's
\* tests do, f"v_{idx}_{j}"): ValueOf(n, i) is the value of item i of request n.
ValueNames == << <<"v11", "v12", "v13", "v14">>, <<"v21", "v22", "v23", "v24">>,
                 <<"v31", "v32", "v33", "v34">>, <<"v41", "v42", "v43", "v44">>,
                 <<"v51", "v52", "v53", "v54">> >>
ValueOf(n, i) == ValueNames[n][i]
Values == {ValueOf(n, i) : n \in 1..MaxOps, i \in 1..MaxItems}

\* Python's None: what dict.get returns for a key that is not in the dict
None == "None"
\* marks a key that is not in the dict
Missing == "missing"
NoThread == "nobody"

KeyLists == UNION {[1..n -> Keys] : n \in 0..MaxItems}
\* the item lists request n can carry
BulkLists(n) == {[i \in 1..Len(ks) |-> <<ks[i], ValueOf(n, i)>>] : ks \in KeyLists}

GetRequests == [method : {"get"}, key : Keys]
SetRequests(n) == [method : {"set"}, key : Keys, value : {ValueOf(n, 1)}, debug : BOOLEAN]
DeleteRequests == [method : {"delete"}, key : Keys, debug : BOOLEAN]
BulkRequests(n) == [method : {"bulk_set"}, items : BulkLists(n), debug : BOOLEAN]
\* the mutating requests that can come n-th
MutatingRequests(n) == SetRequests(n) \cup DeleteRequests \cup BulkRequests(n)
NoRequest == [method |-> "none"]

EmptyMap == [k \in Keys |-> Missing]

(* --------------------------- log record codec -------------------------- *)
\* the entry dict a mutating request logs
EntryOf(r) ==
    CASE r.method = "set" -> [op |-> "set", key |-> r.key, value |-> r.value]
      [] r.method = "delete" -> [op |-> "delete", key |-> r.key]
      [] r.method = "bulk_set" -> [op |-> "bulk", items |-> r.items]

\* The WAL file is a sequence of tokens: J is the complete JSON text of an
\* entry, P a proper non-empty prefix of that text (a write cut short), NL the
\* newline.  id names the request that wrote the token (history only).
JsonToken(e, id) == [t |-> "J", e |-> e, id |-> id]
PartToken(e, id) == [t |-> "P", e |-> e, id |-> id]
NewLine == [t |-> "NL"]

\* json.dumps(entry) + "\n"
EncodeLine(e, id) == <<JsonToken(e, id), NewLine>>

\* the lines `for line in f` yields, the last one also when it has no newline
RECURSIVE SplitLines(_, _)
SplitLines(toks, cur) ==
    IF toks = <<>> THEN (IF cur = <<>> THEN <<>> ELSE <<cur>>)
    ELSE IF Head(toks).t = "NL" THEN <<cur>> \o SplitLines(Tail(toks), <<>>)
    ELSE SplitLines(Tail(toks), Append(cur, Head(toks)))

\* json.loads(line) succeeds exactly on one complete JSON text
Decodable(line) == Len(line) = 1 /\ line[1].t = "J"

(* ------------------------------ recovery ------------------------------- *)
RECURSIVE ApplyItems(_, _)
ApplyItems(m, items) ==
    IF items = <<>> THEN m
    ELSE ApplyItems([m EXCEPT ![Head(items)[1]] = Head(items)[2]], Tail(items))

ApplyEntry(m, e) ==
    CASE e.op = "set" -> [m EXCEPT ![e.key] = e.value]
      [] e.op = "delete" -> [m EXCEPT ![e.key] = Missing]
      [] e.op = "bulk" -> ApplyItems(m, e.items)

\* mutant: the replay passes over a line that fails to decode and goes on
RECURSIVE ReplaySkipsBad(_, _)
ReplaySkipsBad(m, lines) ==
    IF lines = <<>> THEN m
    ELSE IF Head(lines) = <<>> THEN ReplaySkipsBad(m, Tail(lines))
    ELSE IF ~Decodable(Head(lines)) THEN ReplaySkipsBad(m, Tail(lines))
    ELSE ReplaySkipsBad(ApplyEntry(m, Head(lines)[1].e), Tail(lines))

\* the WAL loop of _recover: blank lines skipped, the first line that fails
\* to decode ends the replay
RECURSIVE Replay(_, _)
Replay(m, lines) ==
    IF lines = <<>> THEN m
    ELSE IF Head(lines) = <<>> THEN Replay(m, Tail(lines))
    ELSE IF ~Decodable(Head(lines)) THEN m
    ELSE Replay(ApplyEntry(m, Head(lines)[1].e), Tail(lines))

NoSnapshot == [st |-> "none"]
TornSnapshot == [st |-> "torn"]
SnapshotOf(m) == [st |-> "ok", m |-> m]

\* the snapshot half of _recover: missing or unparseable gives the empty map
LoadSnapshot(s) == IF s.st = "ok" THEN s.m ELSE EmptyMap

Recover(s, w) == Replay(LoadSnapshot(s), SplitLines(w, <<>>))

(* ------------------------------- state --------------------------------- *)
VARIABLES
    up,          \* the server process is running
    data,        \* KVStore._data
    lock,        \* owner of KVStore._lock
    wal,         \* content of wal.jsonl
    snapshot,    \* content of snapshot.json
    pc,          \* where each client-handler thread is
    req,         \* the request each thread is handling
    idx,         \* next item of the bulk a thread is applying
    ret,         \* value returned by the thread's get
    \* history
    nreq,        \* mutating requests received so far (their ids are 1..nreq)
    rid,         \* id of the request each thread is handling
    kills,       \* kills so far
    everSkipped, \* a snapshot write was skipped
    ackOrder,    \* ids of the acknowledged mutations, in the order of the oks
    seenAcked,   \* per thread: the ids acknowledged when it took the lock
    serial,      \* entries applied in this process life, in lock order
    base,        \* the map this process life started from
    view,        \* per thread: the map its get read from
    \* a node of the primary/secondary cluster
    isPrimary,   \* is_primary
    roleLock,    \* owner of the node's role lock
    sender,      \* a ReplicationSender exists
    stopFlag,    \* the receiver's _stop event is set
    inbox,       \* lines the primary sent to this node's receiver, unread
    rx,          \* the receiver thread: its place, entry in hand, next item
    el,          \* the election thread's place
    sent,        \* ids of the entries this node sent to its peers
    resp,        \* per thread: the error or role answer about to be sent
    \* a fleet of nodes: the three-node cluster, the masterless nodes
    nodeUp,      \* per node: the process is running
    nodeRole,    \* per node: is_primary
    nodeLock,    \* per node: owner of the role lock
    boot,        \* per node: "start" until its sender dialed / its receiver listens
    listening,   \* per node: the receiver accepts and reads
    conns,       \* per node: the live connections of its sender, in dial order
    wire,        \* per node: entries sent to its receiver, not yet read
    maps,        \* per node: the in-memory map
    probe,       \* per node: the election thread's round
    hand,        \* per node: the client handler's mutation in hand
    ackedMap,    \* node 0's map as of its last acknowledged mutation
    nwrites,     \* per node: mutations accepted so far
    nrecv,       \* per node: entries its receiver applied so far
    \* one client connection, seen line by line
    kind,        \* the program that serves it
    connOpen,    \* its handler thread is alive and the socket is open
    lineIn,      \* the last request line the handler read
    nlines,      \* request lines read so far
    out,         \* the response lines sent so far
    client,      \* a ClusterKVClient: its place in a call, its cached primary
    \* a KVStore with enable_indexes
    ftIndex,     \* FullTextIndex._word_to_keys
    \* history of a replication stream
    streamed     \* the entries the primary wrote to the session, in order

vars == <<up, data, lock, wal, snapshot, pc, req, idx, ret, nreq, rid, kills,
          everSkipped, ackOrder, seenAcked, serial, base, view,
          isPrimary, roleLock, sender, stopFlag, inbox, rx, el, sent, resp,
          nodeUp, nodeRole, nodeLock, boot, listening, conns, wire, maps,
          probe, hand, ackedMap, nwrites, nrecv,
          kind, connOpen, lineIn, nlines, out, client, ftIndex, streamed>>

sideVars == <<ftIndex, streamed>>

connVars == <<kind, connOpen, lineIn, nlines, out, client, sideVars>>

fleetVarsButConn == <<nodeUp, nodeRole, nodeLock, boot, listening, conns, wire,
                      maps, probe, hand, ackedMap, nwrites, nrecv>>

fleetVars == <<fleetVarsButConn, connVars>>

clusterVars == <<isPrimary, roleLock, sender, stopFlag, inbox, rx, el, sent, resp>>

storeVars == <<data, lock, wal, snapshot>>
histVars == <<nreq, kills, everSkipped, ackOrder, serial, base>>

StoreInit ==
    /\ up = TRUE
    /\ data = EmptyMap
    /\ lock = NoThread
    /\ wal = <<>>
    /\ snapshot = NoSnapshot
    /\ pc = [t \in Threads |-> "idle"]
    /\ req = [t \in Threads |-> NoRequest]
    /\ idx = [t \in Threads |-> 0]
    /\ ret = [t \in Threads |-> None]
    /\ nreq = 0
    /\ rid = [t \in Threads |-> 0]
    /\ kills = 0
    /\ everSkipped = FALSE
    /\ ackOrder = <<>>
    /\ seenAcked = [t \in Threads |-> {}]
    /\ serial = <<>>
    /\ base = EmptyMap
    /\ view = [t \in Threads |-> EmptyMap]

\* the receiver thread, the election thread, and the values of their places
Receiver == "receiver"
Election == "election"
NoEntry == [op |-> "none"]
NoResponse == [ok |-> TRUE, error |-> "nil", primary |-> FALSE]
ErrorResponse(msg) == [ok |-> FALSE, error |-> msg, primary |-> FALSE]
RoleResponse(p) == [ok |-> TRUE, error |-> "", primary |-> p]
NotPrimary == ErrorResponse("not primary")
NodeIds == {0, 1}

\* Node 0 starts as primary with a sender; every other node starts with a
\* receiver and an election thread.
NodeInit(id) ==
    /\ isPrimary = (id = 0)
    /\ roleLock = NoThread
    /\ sender = (id = 0)
    /\ stopFlag = FALSE
    /\ inbox = <<>>
    /\ rx = [pc |-> IF id = 0 THEN "none" ELSE "check", entry |-> NoEntry, i |-> 0]
    /\ el = IF id = 0 THEN "none" ELSE "sleep"
    /\ sent = <<>>
    /\ resp = [t \in Threads |-> NoResponse]

\* The three-node cluster: node 0 starts as primary, nodes 1 and 2 as
\* secondaries; no sender has dialed and no receiver listens yet.
Nodes == {0, 1, 2}
Secondaries == Nodes \ {0}
IdleHand == [pc |-> "idle", e |-> NoEntry, fails |-> {}]
IdleProbe == [pc |-> "sleep", todo |-> <<>>, other |-> FALSE, saw |-> {}]

FleetInit ==
    /\ nodeUp = [n \in Nodes |-> TRUE]
    /\ nodeRole = [n \in Nodes |-> n = 0]
    /\ nodeLock = [n \in Nodes |-> NoThread]
    /\ boot = [n \in Nodes |-> "start"]
    /\ listening = [n \in Nodes |-> FALSE]
    /\ conns = [n \in Nodes |-> <<>>]
    /\ wire = [n \in Nodes |-> <<>>]
    /\ maps = [n \in Nodes |-> EmptyMap]
    /\ probe = [n \in Nodes |-> IdleProbe]
    /\ hand = [n \in Nodes |-> IdleHand]
    /\ ackedMap = EmptyMap
    /\ nwrites = [n \in Nodes |-> 0]
    /\ nrecv = [n \in Nodes |-> 0]

\* a request line not read yet
NoLine == [t |-> "none"]

\* FullTextIndex.__init__: no word has postings
NoIndex == [w \in {} |-> {}]

\* a client connection to program k, just accepted
ConnStart(k) ==
    /\ kind = k
    /\ connOpen = TRUE
    /\ lineIn = NoLine
    /\ nlines = 0
    /\ out = <<>>
    /\ ftIndex = NoIndex
    /\ streamed = <<>>

\* ClusterKVClient.__init__: _primary_port = None (cached is empty)
IdleClient == [pc |-> "idle", cached |-> {}, attempt |-> 0, i |-> 0, retries |-> 0]

ConnInit == ConnStart("server") /\ client = IdleClient

\* the standalone server: no receiver, no election thread
Init == StoreInit /\ NodeInit(0) /\ FleetInit /\ ConnInit

Range(s) == {s[i] : i \in 1..Len(s)}

(* --------------------------- request handling -------------------------- *)
\* handle_client reads one request line and dispatches on its method
Recv(t, r) ==
    /\ up /\ pc[t] = "idle"
    /\ req' = [req EXCEPT ![t] = r]
    /\ IF r.method = "get"
       THEN /\ pc' = [pc EXCEPT ![t] = "get"]
            /\ UNCHANGED <<nreq, rid>>
       ELSE /\ nreq < MaxOps
            /\ nreq' = nreq + 1
            /\ rid' = [rid EXCEPT ![t] = nreq + 1]
            \* bulk_set returns at once on an empty list
            /\ pc' = [pc EXCEPT ![t] =
                        IF r.method = "bulk_set" /\ r.items = <<>>
                        THEN "reply" ELSE "call"]
    /\ UNCHANGED <<fleetVars, clusterVars, up, storeVars, idx, ret, kills, everSkipped, ackOrder,
                   seenAcked, serial, base, view>>

\* KVStore.get: the read under the lock
GetValue(m, k) == IF m[k] = Missing THEN None ELSE m[k]

\* mutant: the read without the lock
GetUnlocked(t) ==
    /\ up /\ pc[t] = "get"
    /\ ret' = [ret EXCEPT ![t] = GetValue(data, req[t].key)]
    /\ view' = [view EXCEPT ![t] = data]
    /\ pc' = [pc EXCEPT ![t] = "reply"]
    /\ UNCHANGED <<fleetVars, clusterVars, up, storeVars, req, idx, rid, seenAcked, histVars>>

Get(t) ==
    /\ up /\ pc[t] = "get"
    /\ lock = NoThread
    /\ ret' = [ret EXCEPT ![t] = GetValue(data, req[t].key)]
    /\ view' = [view EXCEPT ![t] = data]
    /\ pc' = [pc EXCEPT ![t] = "reply"]
    /\ UNCHANGED <<fleetVars, clusterVars, up, storeVars, req, idx, rid, seenAcked, histVars>>

\* mutant: entering the block without waiting for the lock
AcquireNoExclusion(t) ==
    /\ up /\ pc[t] = "call"
    /\ lock' = t
    /\ pc' = [pc EXCEPT ![t] = "apply"]
    /\ idx' = [idx EXCEPT ![t] = 1]
    /\ serial' = Append(serial, EntryOf(req[t]))
    /\ seenAcked' = [seenAcked EXCEPT ![t] = Range(ackOrder)]
    /\ UNCHANGED <<fleetVars, clusterVars, up, data, wal, snapshot, req, ret, rid, nreq, kills,
                   everSkipped, ackOrder, base, view>>

\* `with self._lock:` of set, delete and bulk_set
Acquire(t) ==
    /\ up /\ pc[t] = "call"
    /\ lock = NoThread
    /\ lock' = t
    /\ pc' = [pc EXCEPT ![t] = "apply"]
    /\ idx' = [idx EXCEPT ![t] = 1]
    /\ serial' = Append(serial, EntryOf(req[t]))
    /\ seenAcked' = [seenAcked EXCEPT ![t] = Range(ackOrder)]
    /\ UNCHANGED <<fleetVars, clusterVars, up, data, wal, snapshot, req, ret, rid, nreq, kills,
                   everSkipped, ackOrder, base, view>>

\* mutant: dict.setdefault, an existing key keeps its value
StoreItemIfAbsent(m, k, v) == IF m[k] = Missing THEN [m EXCEPT ![k] = v] ELSE m

\* self._data[key] = value
StoreItem(m, k, v) == [m EXCEPT ![k] = v]
\* self._data.pop(key, None)
PopKey(m, k) == [m EXCEPT ![k] = Missing]

\* mutant: the delete of a key that is not in the map returns before logging
ApplyAbsentDeleteUnlogged(t) ==
    /\ up /\ pc[t] = "apply"
    /\ LET r == req[t] IN
       CASE r.method = "set" ->
              /\ data' = StoreItem(data, r.key, r.value)
              /\ pc' = [pc EXCEPT ![t] = "wal"]
              /\ UNCHANGED idx
         [] r.method = "delete" ->
              /\ data' = PopKey(data, r.key)
              /\ pc' = [pc EXCEPT ![t] =
                          IF data[r.key] = Missing THEN "snap" ELSE "wal"]
              /\ UNCHANGED idx
         [] r.method = "bulk_set" ->
              /\ data' = StoreItem(data, r.items[idx[t]][1], r.items[idx[t]][2])
              /\ idx' = [idx EXCEPT ![t] = idx[t] + 1]
              /\ pc' = [pc EXCEPT ![t] =
                          IF idx[t] = Len(r.items) THEN "wal" ELSE "apply"]
    /\ UNCHANGED <<fleetVars, clusterVars, up, lock, wal, snapshot, req, ret,
                   rid, seenAcked, histVars, view>>

\* the map update of set and delete, and one turn of bulk_set's loop
Apply(t) ==
    /\ up /\ pc[t] = "apply"
    /\ LET r == req[t] IN
       CASE r.method = "set" ->
              /\ data' = StoreItem(data, r.key, r.value)
              /\ pc' = [pc EXCEPT ![t] = "wal"]
              /\ UNCHANGED idx
         [] r.method = "delete" ->
              /\ data' = PopKey(data, r.key)
              /\ pc' = [pc EXCEPT ![t] = "wal"]
              /\ UNCHANGED idx
         [] r.method = "bulk_set" ->
              /\ data' = StoreItem(data, r.items[idx[t]][1], r.items[idx[t]][2])
              /\ idx' = [idx EXCEPT ![t] = idx[t] + 1]
              /\ pc' = [pc EXCEPT ![t] =
                          IF idx[t] = Len(r.items) THEN "wal" ELSE "apply"]
    /\ UNCHANGED <<fleetVars, clusterVars, up, lock, wal, snapshot, req, ret, rid, seenAcked,
                   histVars, view>>

\* mutant: the file opened with "w", the old content gone
WalRewritten(w, e, id) == EncodeLine(e, id)

\* open(wal, "a"); write(json.dumps(entry) + "\n"); flush; fsync
WalAppended(w, e, id) == w \o EncodeLine(e, id)

AppendWal(t) ==
    /\ up /\ pc[t] = "wal"
    /\ wal' = WalAppended(wal, EntryOf(req[t]), rid[t])
    /\ pc' = [pc EXCEPT ![t] = "snap"]
    /\ UNCHANGED <<fleetVars, clusterVars, up, data, lock, snapshot, req, idx, ret, rid, seenAcked,
                   histVars, view>>

\* _save_snapshot, then the end of the `with` block.  The write is skipped
\* only for a request with debug_simulate_fail, when the random draw fires.
SnapshotWritten(s, m, skip) == IF skip THEN s ELSE SnapshotOf(m)

SaveSnapshot(t, skip) ==
    /\ up /\ pc[t] = "snap"
    /\ skip => req[t].debug
    /\ snapshot' = SnapshotWritten(snapshot, data, skip)
    /\ everSkipped' = (everSkipped \/ skip)
    /\ lock' = NoThread
    /\ pc' = [pc EXCEPT ![t] = "reply"]
    /\ UNCHANGED <<fleetVars, clusterVars, up, data, wal, req, idx, ret, rid, seenAcked, nreq, kills,
                   ackOrder, serial, base, view>>

\* conn.sendall(encode_response(...)): the ok reaches the client
Reply(t) ==
    /\ up /\ pc[t] = "reply"
    /\ ackOrder' = IF req[t].method = "get" \/ EntryOf(req[t]) = [op |-> "bulk", items |-> <<>>]
                   THEN ackOrder ELSE Append(ackOrder, rid[t])
    /\ pc' = [pc EXCEPT ![t] = "idle"]
    /\ req' = [req EXCEPT ![t] = NoRequest]
    /\ ret' = [ret EXCEPT ![t] = None]
    /\ view' = [view EXCEPT ![t] = EmptyMap]
    /\ idx' = [idx EXCEPT ![t] = 0]
    /\ rid' = [rid EXCEPT ![t] = 0]
    /\ seenAcked' = [seenAcked EXCEPT ![t] = {}]
    /\ UNCHANGED <<fleetVars, clusterVars, up, storeVars, nreq, kills, everSkipped, serial, base>>

(* --------------------------- kill and restart -------------------------- *)
\* SIGKILL: memory, threads and the lock are gone, the files stay
Dies ==
    /\ up /\ kills < MaxKills
    /\ up' = FALSE
    /\ kills' = kills + 1
    /\ data' = EmptyMap
    /\ lock' = NoThread
    /\ pc' = [t \in Threads |-> "idle"]
    /\ req' = [t \in Threads |-> NoRequest]
    /\ idx' = [t \in Threads |-> 0]
    /\ ret' = [t \in Threads |-> None]
    /\ rid' = [t \in Threads |-> 0]
    /\ seenAcked' = [t \in Threads |-> {}]
    /\ view' = [t \in Threads |-> EmptyMap]
    /\ serial' = <<>>
    /\ base' = EmptyMap
    /\ UNCHANGED <<fleetVars, clusterVars, nreq, everSkipped, ackOrder>>

\* a kill between two file operations
Kill ==
    /\ Dies
    /\ UNCHANGED <<wal, snapshot>>

\* a kill inside _append_wal: a proper prefix of the line reached the file,
\* or the whole JSON text without its newline
KillDuringAppend(t, whole) ==
    /\ pc[t] = "wal"
    /\ Dies
    /\ wal' = Append(wal, IF whole THEN JsonToken(EntryOf(req[t]), rid[t])
                                   ELSE PartToken(EntryOf(req[t]), rid[t]))
    /\ UNCHANGED snapshot

\* a kill inside _save_snapshot: open(path, "w") truncated the file and the
\* dump did not complete
KillDuringSnapshot(t) ==
    /\ pc[t] = "snap"
    /\ Dies
    /\ snapshot' = TornSnapshot
    /\ UNCHANGED wal

\* KVStore.__init__ on the same data directory
Restart ==
    /\ ~up
    /\ up' = TRUE
    /\ data' = Recover(snapshot, wal)
    /\ base' = Recover(snapshot, wal)
    /\ UNCHANGED <<fleetVars, clusterVars, lock, wal, snapshot, pc, req, idx, ret, nreq, rid, kills,
                   everSkipped, ackOrder, seenAcked, serial, view>>

\* the connection thread of the runs with kills
Main == "t1"

\* One client connection, with kills at every step and restarts.
Next ==
    \/ \E r \in GetRequests \cup MutatingRequests(nreq + 1) : Recv(Main, r)
    \/ Get(Main)
    \/ Acquire(Main)
    \/ Apply(Main)
    \/ AppendWal(Main)
    \/ \E skip \in BOOLEAN : SaveSnapshot(Main, skip)
    \/ Reply(Main)
    \/ Kill
    \/ \E whole \in BOOLEAN : KillDuringAppend(Main, whole)
    \/ KillDuringSnapshot(Main)
    \/ Restart

Spec == Init /\ [][Next]_vars

\* Concurrent client connections on one process life, their requests
\* without debug_simulate_fail.
PlainRequests(n) == {r \in MutatingRequests(n) : ~r.debug}

NextThreads ==
    \/ \E t \in Threads, r \in GetRequests \cup PlainRequests(nreq + 1) : Recv(t, r)
    \/ \E t \in Threads : Get(t)
    \/ \E t \in Threads : Acquire(t)
    \/ \E t \in Threads : Apply(t)
    \/ \E t \in Threads : AppendWal(t)
    \/ \E t \in Threads : SaveSnapshot(t, FALSE)
    \/ \E t \in Threads : Reply(t)

SpecThreads == Init /\ [][NextThreads]_vars

(* ------------------------- history operators --------------------------- *)
\* the entries whose complete JSON text ever reached the WAL, in file order
Written == SelectSeq(wal, LAMBDA x : x.t = "J")

KeysOf(e) ==
    IF e.op = "bulk" THEN {e.items[i][1] : i \in 1..Len(e.items)} ELSE {e.key}

Max(S) == CHOOSE x \in S : \A y \in S : y <= x

\* what an entry, applied in full, leaves under key k (k one of its keys)
WrittenValue(e, k) ==
    CASE e.op = "set" -> e.value
      [] e.op = "delete" -> Missing
      [] e.op = "bulk" ->
           e.items[Max({i \in 1..Len(e.items) : e.items[i][1] = k})][2]

Acked == Range(ackOrder)

\* index in Written of the last acknowledged entry on k, 0 when there is none
LastAcked(k) ==
    LET S == {i \in 1..Len(Written) :
                Written[i].id \in Acked /\ k \in KeysOf(Written[i].e)}
    IN IF S = {} THEN 0 ELSE Max(S)

\* the values a restart may show under k: that of the last acknowledged
\* mutation of k, or of a mutation logged after it that was never acknowledged
Admissible(k) ==
    (IF LastAcked(k) = 0 THEN {Missing} ELSE {})
    \cup {WrittenValue(Written[i].e, k) :
            i \in {j \in 1..Len(Written) :
                     j >= LastAcked(k) /\ k \in KeysOf(Written[j].e)}}

\* the process has just been (re)started: nothing was applied in this life
JustStarted == up /\ serial = <<>>

Durable == \A k \in Keys : data[k] \in Admissible(k)

(* ------------------------------- claims -------------------------------- *)
\* C1: single-node durability with the snapshot never skipped: after every
\* restart, whatever the kill points before it, each key holds the value of
\* its last acknowledged mutation (or of a later unacknowledged one).
C1_Durability == (JustStarted /\ ~everSkipped) => Durable

\* C2: the same durability in runs in which snapshot writes were skipped.
C2_DurabilityUnderSkips == (JustStarted /\ everSkipped) => Durable

\* C3: bulk atomicity on recovery: after a restart every bulk record ever
\* logged is either present in full (each of its keys holds the record's
\* value or the value of a later record) or absent in full.
AllPresent(i) ==
    \A k \in KeysOf(Written[i].e) :
        \/ data[k] = WrittenValue(Written[i].e, k)
        \/ \E j \in (i + 1)..Len(Written) :
              /\ k \in KeysOf(Written[j].e)
              /\ data[k] = WrittenValue(Written[j].e, k)
NonePresent(i) ==
    \A k \in KeysOf(Written[i].e) : data[k] # WrittenValue(Written[i].e, k)
C3_BulkAtomicOnRecovery ==
    JustStarted =>
        \A i \in 1..Len(Written) :
            Written[i].e.op = "bulk" => (AllPresent(i) \/ NonePresent(i))

\* C7 (I3): at every point, recovery from the WAL alone and recovery from
\* the snapshot plus the WAL give the same map.
C7_SnapshotAgreesWithWal == Recover(NoSnapshot, wal) = Recover(snapshot, wal)

(* ----------------------- claims on concurrency ------------------------- *)
RECURSIVE ApplyAll(_, _)
ApplyAll(m, es) == IF es = <<>> THEN m ELSE ApplyAll(ApplyEntry(m, Head(es)), Tail(es))

IsGet(t) == req[t].method = "get"
IsLogged(t) ==
    req[t].method \in {"set", "delete", "bulk_set"} /\ EntryOf(req[t]) # [op |-> "bulk", items |-> <<>>]

Quiescent == \A t \in Threads : pc[t] = "idle"
AllBulksOnSameKeys ==
    /\ serial # <<>>
    /\ \A i \in 1..Len(serial) :
          serial[i].op = "bulk" /\ KeysOf(serial[i]) = KeysOf(serial[1])
C5_ConcurrentConvergence ==
    (up /\ Quiescent /\ AllBulksOnSameKeys) =>
        \A k \in KeysOf(serial[1]) :
            data[k] = WrittenValue(serial[Len(serial)], k)

\* two bulks over both keys, the one received second serialised first
C5_Witness ==
    /\ up /\ Quiescent /\ AllBulksOnSameKeys
    /\ Len(serial) >= 2 /\ KeysOf(serial[1]) = Keys
    /\ serial[1].items[1][2] = ValueOf(2, 1)
    /\ serial[2].items[1][2] = ValueOf(1, 1)

\* C6: the store is a plain map: with every received mutation acknowledged
\* and no crash, get(k) returns the value of the last operation that wrote k,
\* and None when none did or the last one deleted k.
LastWrite(k) ==
    LET S == {i \in 1..Len(serial) : k \in KeysOf(serial[i])}
    IN IF S = {} THEN None
       ELSE IF WrittenValue(serial[Max(S)], k) = Missing THEN None
       ELSE WrittenValue(serial[Max(S)], k)
AllAcknowledged == \A t \in Threads : pc[t] \in {"idle", "get"}
C6_PlainMap ==
    (up /\ kills = 0 /\ AllAcknowledged) =>
        \A k \in Keys : GetValue(data, k) = LastWrite(k)

\* a key overwritten, and a bulk that wrote one key twice
C6_Witness ==
    /\ up /\ kills = 0 /\ AllAcknowledged
    /\ \E i \in 1..Len(serial), j \in 1..Len(serial) :
          /\ i < j /\ serial[i].op = "set" /\ serial[j].op = "bulk"
          /\ Len(serial[j].items) = 2
          /\ KeysOf(serial[j]) = {serial[i].key}
          /\ data[serial[i].key] = serial[j].items[2][2]

\* C8: the claim as stated: the order of the oks is the order of the WAL.
Logged(id) == \E i \in 1..Len(Written) : Written[i].id = id
PosOf(id) == CHOOSE i \in 1..Len(Written) : Written[i].id = id
C8_AckOrderIsWalOrder ==
    \A i \in 1..Len(ackOrder), j \in 1..Len(ackOrder) :
        i < j => PosOf(ackOrder[i]) < PosOf(ackOrder[j])

\* C8 as amended: a mutation whose ok was sent before another mutation took
\* the engine lock precedes that mutation in the WAL.
C8_AckBeforeLockIsWalOrder ==
    \A t \in Threads :
        (pc[t] \in {"snap", "reply"} /\ IsLogged(t)) =>
            \A a \in seenAcked[t] :
                Logged(a) /\ Logged(rid[t]) /\ PosOf(a) < PosOf(rid[t])

C8_Witness ==
    \E t \in Threads :
        /\ pc[t] = "reply" /\ IsLogged(t)
        /\ seenAcked[t] # {}
        /\ \E u \in Threads : u # t /\ pc[u] \in {"call", "reply"} /\ IsLogged(u)

(* ------------------- primary/secondary node: replication ---------------- *)
RoleRequest == [method |-> "role"]

\* The primary, elsewhere, sends the entry of an applied mutation down the
\* connection to this node's receiver.
PrimarySends(r) ==
    /\ up /\ rx.pc \notin {"none", "exit"}
    /\ nreq < MaxOps
    /\ EntryOf(r) # [op |-> "bulk", items |-> <<>>]
    /\ nreq' = nreq + 1
    /\ inbox' = Append(inbox, [e |-> EntryOf(r), id |-> nreq + 1])
    /\ UNCHANGED <<fleetVars, up, storeVars, pc, req, idx, ret, rid, kills, everSkipped,
                   ackOrder, seenAcked, serial, base, view,
                   isPrimary, roleLock, sender, stopFlag, rx, el, sent, resp>>

\* ReplicationReceiver: `while not self._stop.is_set()`
RxCheck ==
    /\ up /\ rx.pc = "check"
    /\ rx' = [rx EXCEPT !.pc = IF stopFlag THEN "exit" ELSE "recv"]
    /\ UNCHANGED <<fleetVars, up, storeVars, pc, req, idx, ret, histVars, rid, seenAcked,
                   view, isPrimary, roleLock, sender, stopFlag, inbox, el,
                   sent, resp>>

\* line = _recv_line(conn); entry = json.loads(line)
RxRecv ==
    /\ up /\ rx.pc = "recv" /\ inbox # <<>>
    /\ rx' = [pc |-> "lock", entry |-> Head(inbox).e, i |-> 1]
    /\ inbox' = Tail(inbox)
    /\ UNCHANGED <<fleetVars, up, storeVars, pc, req, idx, ret, histVars, rid, seenAcked,
                   view, isPrimary, roleLock, sender, stopFlag, el, sent, resp>>

\* `with self._store._lock:`
RxAcquire ==
    /\ up /\ rx.pc = "lock"
    /\ lock = NoThread
    /\ lock' = Receiver
    /\ rx' = [rx EXCEPT !.pc = "apply"]
    /\ UNCHANGED <<fleetVars, up, data, wal, snapshot, pc, req, idx, ret, histVars, rid,
                   seenAcked, view, isPrimary, roleLock, sender, stopFlag,
                   inbox, el, sent, resp>>

\* mutant: the receiver logs the entry it applied, as a masterless node does
RxApplyLogged ==
    /\ up /\ rx.pc = "apply"
    /\ LET e == rx.entry
           last == e.op # "bulk" \/ rx.i = Len(e.items)
       IN /\ data' = CASE e.op = "set" -> StoreItem(data, e.key, e.value)
                       [] e.op = "delete" -> PopKey(data, e.key)
                       [] e.op = "bulk" ->
                            StoreItem(data, e.items[rx.i][1], e.items[rx.i][2])
          /\ rx' = IF last THEN [pc |-> "check", entry |-> NoEntry, i |-> 0]
                           ELSE [rx EXCEPT !.i = rx.i + 1]
          /\ lock' = IF last THEN NoThread ELSE lock
          /\ wal' = IF last THEN WalAppended(wal, e, nreq) ELSE wal
    /\ UNCHANGED <<fleetVars, up, snapshot, pc, req, idx, ret, histVars, rid,
                   seenAcked, view, isPrimary, roleLock, sender, stopFlag,
                   inbox, el, sent, resp>>

\* the receiver's map update, one item of a bulk per step; the lock is
\* released after the last one.  Nothing is written to the WAL or snapshot.
RxApply ==
    /\ up /\ rx.pc = "apply"
    /\ LET e == rx.entry
           last == e.op # "bulk" \/ rx.i = Len(e.items)
       IN /\ data' = CASE e.op = "set" -> StoreItem(data, e.key, e.value)
                       [] e.op = "delete" -> PopKey(data, e.key)
                       [] e.op = "bulk" ->
                            StoreItem(data, e.items[rx.i][1], e.items[rx.i][2])
          /\ rx' = IF last THEN [pc |-> "check", entry |-> NoEntry, i |-> 0]
                           ELSE [rx EXCEPT !.i = rx.i + 1]
          /\ lock' = IF last THEN NoThread ELSE lock
    /\ UNCHANGED <<fleetVars, up, wal, snapshot, pc, req, idx, ret, histVars, rid,
                   seenAcked, view, isPrimary, roleLock, sender, stopFlag,
                   inbox, el, sent, resp>>

(* -------------------- primary/secondary node: election ------------------ *)
\* the election thread found no primary with a lower id: `with lock:`,
\* is_primary still false
ElectBegin ==
    /\ up /\ el = "sleep"
    /\ roleLock = NoThread
    /\ ~isPrimary
    /\ roleLock' = Election
    /\ el' = "stop"
    /\ UNCHANGED <<fleetVars, up, storeVars, pc, req, idx, ret, histVars, rid, seenAcked,
                   view, isPrimary, sender, stopFlag, inbox, rx, sent, resp>>

\* receiver.stop(): the event is set, the thread is not joined
ElectStopReceiver ==
    /\ up /\ el = "stop"
    /\ stopFlag' = TRUE
    /\ el' = "promote"
    /\ UNCHANGED <<fleetVars, up, storeVars, pc, req, idx, ret, histVars, rid, seenAcked,
                   view, isPrimary, roleLock, sender, inbox, rx, sent, resp>>

\* is_primary = True
ElectSetPrimary ==
    /\ up /\ el = "promote"
    /\ isPrimary' = TRUE
    /\ el' = "sender"
    /\ UNCHANGED <<fleetVars, up, storeVars, pc, req, idx, ret, histVars, rid, seenAcked,
                   view, roleLock, sender, stopFlag, inbox, rx, sent, resp>>

\* mutant: the promotion undone when the sender has been started
ElectStartSenderDemotes ==
    /\ up /\ el = "sender"
    /\ sender' = TRUE
    /\ isPrimary' = FALSE
    /\ roleLock' = NoThread
    /\ el' = "sleep"
    /\ UNCHANGED <<fleetVars, up, storeVars, pc, req, idx, ret, histVars, rid, seenAcked,
                   view, stopFlag, inbox, rx, sent, resp>>

\* sender = ReplicationSender(peers); sender.connect(); end of `with lock`
ElectStartSender ==
    /\ up /\ el = "sender"
    /\ sender' = TRUE
    /\ roleLock' = NoThread
    /\ el' = "sleep"
    /\ UNCHANGED <<fleetVars, up, storeVars, pc, req, idx, ret, histVars, rid, seenAcked,
                   view, isPrimary, stopFlag, inbox, rx, sent, resp>>

(* ------------- primary/secondary node: the client handler --------------- *)
\* handle_client of the cluster node reads one request line
ClusterRecv(t, r) ==
    /\ up /\ pc[t] = "idle"
    /\ req' = [req EXCEPT ![t] = r]
    /\ pc' = [pc EXCEPT ![t] = "dispatch"]
    /\ IF r.method \in {"get", "role"}
       THEN UNCHANGED <<nreq, rid>>
       ELSE /\ nreq < MaxOps
            /\ nreq' = nreq + 1
            /\ rid' = [rid EXCEPT ![t] = nreq + 1]
    /\ UNCHANGED <<fleetVars, up, storeVars, idx, ret, kills, everSkipped, ackOrder,
                   seenAcked, serial, base, view, clusterVars>>

\* mutant: the handler without its role check
DispatchNoRoleCheck(t) ==
    /\ up /\ pc[t] = "dispatch"
    /\ LET r == req[t] IN
       IF r.method = "role"
       THEN /\ roleLock = NoThread
            /\ resp' = [resp EXCEPT ![t] = RoleResponse(isPrimary)]
            /\ pc' = [pc EXCEPT ![t] = "answer"]
       ELSE /\ pc' = [pc EXCEPT ![t] =
                        IF r.method = "get" THEN "get"
                        ELSE IF r.method = "bulk_set" /\ r.items = <<>>
                        THEN "reply" ELSE "call"]
            /\ UNCHANGED resp
    /\ UNCHANGED <<fleetVars, up, storeVars, req, idx, ret, histVars, rid, seenAcked,
                   view, isPrimary, roleLock, sender, stopFlag, inbox, rx, el,
                   sent>>

\* mutant: an empty bulk_set handled like any other mutation
DispatchEmptyBulkLogged(t) ==
    /\ up /\ pc[t] = "dispatch"
    /\ LET r == req[t] IN
       IF r.method = "role"
       THEN /\ roleLock = NoThread
            /\ resp' = [resp EXCEPT ![t] = RoleResponse(isPrimary)]
            /\ pc' = [pc EXCEPT ![t] = "answer"]
       ELSE IF ~isPrimary
       THEN /\ resp' = [resp EXCEPT ![t] = NotPrimary]
            /\ pc' = [pc EXCEPT ![t] = "answer"]
       ELSE /\ pc' = [pc EXCEPT ![t] = IF r.method = "get" THEN "get" ELSE "call"]
            /\ UNCHANGED resp
    /\ UNCHANGED <<fleetVars, up, storeVars, req, idx, ret, histVars, rid,
                   seenAcked, view, isPrimary, roleLock, sender, stopFlag,
                   inbox, rx, el, sent>>

\* The dispatch on the method: role is answered under the role lock; then,
\* on is_primary read without the lock, every other request is refused when
\* the node is not primary; then get, set, delete and bulk_set.
Dispatch(t) ==
    /\ up /\ pc[t] = "dispatch"
    /\ LET r == req[t] IN
       IF r.method = "role"
       THEN /\ roleLock = NoThread
            /\ resp' = [resp EXCEPT ![t] = RoleResponse(isPrimary)]
            /\ pc' = [pc EXCEPT ![t] = "answer"]
       ELSE IF ~isPrimary
       THEN /\ resp' = [resp EXCEPT ![t] = NotPrimary]
            /\ pc' = [pc EXCEPT ![t] = "answer"]
       ELSE /\ pc' = [pc EXCEPT ![t] =
                        IF r.method = "get" THEN "get"
                        ELSE IF r.method = "bulk_set" /\ r.items = <<>>
                        THEN "reply" ELSE "call"]
            /\ UNCHANGED resp
    /\ UNCHANGED <<fleetVars, up, storeVars, req, idx, ret, histVars, rid, seenAcked,
                   view, isPrimary, roleLock, sender, stopFlag, inbox, rx, el,
                   sent>>

\* the end of apply_and_replicate's `with store._lock` block:
\* store._save_snapshot(debug_simulate_fail=False)
ClusterSaveSnapshot(t) ==
    /\ up /\ pc[t] = "snap"
    /\ snapshot' = SnapshotWritten(snapshot, data, FALSE)
    /\ lock' = NoThread
    /\ pc' = [pc EXCEPT ![t] = "send"]
    /\ UNCHANGED <<fleetVars, up, data, wal, req, idx, ret, histVars, rid, seenAcked,
                   view, clusterVars>>

\* `if sender: sender.send(entry)`, outside the store lock
ClusterSend(t) ==
    /\ up /\ pc[t] = "send"
    /\ sent' = IF sender THEN Append(sent, rid[t]) ELSE sent
    /\ pc' = [pc EXCEPT ![t] = "reply"]
    /\ UNCHANGED <<fleetVars, up, storeVars, req, idx, ret, histVars, rid, seenAcked,
                   view, isPrimary, roleLock, sender, stopFlag, inbox, rx, el,
                   resp>>

\* the role answer or the error reaches the client
ClusterAnswer(t) ==
    /\ up /\ pc[t] = "answer"
    /\ pc' = [pc EXCEPT ![t] = "idle"]
    /\ req' = [req EXCEPT ![t] = NoRequest]
    /\ rid' = [rid EXCEPT ![t] = 0]
    /\ resp' = [resp EXCEPT ![t] = NoResponse]
    /\ UNCHANGED <<fleetVars, up, storeVars, idx, ret, histVars, seenAcked, view,
                   isPrimary, roleLock, sender, stopFlag, inbox, rx, el, sent>>

InitCluster == StoreInit /\ FleetInit /\ ConnInit /\ \E id \in NodeIds : NodeInit(id)

\* One node of the cluster: a client connection, the receiver thread and
\* the election thread, the primary's sends as the environment.
NextCluster ==
    \/ \E r \in GetRequests \cup {RoleRequest} \cup PlainRequests(nreq + 1) :
          ClusterRecv(Main, r)
    \/ Dispatch(Main)
    \/ Get(Main)
    \/ Acquire(Main)
    \/ Apply(Main)
    \/ AppendWal(Main)
    \/ ClusterSaveSnapshot(Main)
    \/ ClusterSend(Main)
    \/ Reply(Main)
    \/ ClusterAnswer(Main)
    \/ \E r \in PlainRequests(nreq + 1) : PrimarySends(r)
    \/ RxCheck
    \/ RxRecv
    \/ RxAcquire
    \/ RxApply
    \/ ElectBegin
    \/ ElectStopReceiver
    \/ ElectSetPrimary
    \/ ElectStartSender

SpecCluster == InitCluster /\ [][NextCluster]_vars

(* ----------------- ClusterNode of replication.py ------------------------ *)
\* a caller enters ClusterNode.apply_and_replicate with an entry
CnCall(t, r) ==
    /\ up /\ pc[t] = "idle"
    /\ nreq < MaxOps
    /\ nreq' = nreq + 1
    /\ rid' = [rid EXCEPT ![t] = nreq + 1]
    /\ req' = [req EXCEPT ![t] = r]
    /\ resp' = [resp EXCEPT ![t] = NoResponse]
    /\ pc' = [pc EXCEPT ![t] = "cn_lock"]
    /\ UNCHANGED <<fleetVars, up, storeVars, idx, ret, kills, everSkipped, ackOrder,
                   seenAcked, serial, base, view, isPrimary, roleLock, sender,
                   stopFlag, inbox, rx, el, sent>>

\* `with self._lock:` (the node's lock), then RuntimeError("not primary")
\* on a node that is not primary
CnAcquire(t) ==
    /\ up /\ pc[t] = "cn_lock"
    /\ roleLock = NoThread
    /\ IF ~isPrimary
       THEN /\ resp' = [resp EXCEPT ![t] = NotPrimary]
            /\ pc' = [pc EXCEPT ![t] = "idle"]
            /\ req' = [req EXCEPT ![t] = NoRequest]
            /\ rid' = [rid EXCEPT ![t] = 0]
            /\ UNCHANGED <<roleLock, idx>>
       ELSE /\ roleLock' = t
            /\ pc' = [pc EXCEPT ![t] = "cn_apply"]
            /\ idx' = [idx EXCEPT ![t] = 1]
            /\ UNCHANGED <<resp, req, rid>>
    /\ UNCHANGED <<fleetVars, up, storeVars, ret, histVars, seenAcked, view, isPrimary,
                   sender, stopFlag, inbox, rx, el, sent>>

\* the map update of apply_and_replicate, one item of a bulk per step
CnApply(t) ==
    /\ up /\ pc[t] = "cn_apply"
    /\ LET e == EntryOf(req[t])
           last == e.op # "bulk" \/ idx[t] >= Len(e.items)
       IN /\ data' = CASE e.op = "set" -> StoreItem(data, e.key, e.value)
                       [] e.op = "delete" -> PopKey(data, e.key)
                       [] e.op = "bulk" ->
                            IF e.items = <<>> THEN data
                            ELSE StoreItem(data, e.items[idx[t]][1], e.items[idx[t]][2])
          /\ idx' = [idx EXCEPT ![t] = idx[t] + 1]
          /\ pc' = [pc EXCEPT ![t] = IF last THEN "cn_repl" ELSE "cn_apply"]
    /\ UNCHANGED <<fleetVars, up, lock, wal, snapshot, req, ret, histVars, rid,
                   seenAcked, view, clusterVars>>

\* self._replicate(entry), then the end of `with self._lock`
CnReplicate(t) ==
    /\ up /\ pc[t] = "cn_repl"
    /\ sent' = IF sender THEN Append(sent, rid[t]) ELSE sent
    /\ roleLock' = NoThread
    /\ pc' = [pc EXCEPT ![t] = "idle"]
    /\ req' = [req EXCEPT ![t] = NoRequest]
    /\ idx' = [idx EXCEPT ![t] = 0]
    /\ rid' = [rid EXCEPT ![t] = 0]
    /\ UNCHANGED <<fleetVars, up, storeVars, ret, histVars, seenAcked, view, isPrimary,
                   sender, stopFlag, inbox, rx, el, resp>>

\* A ClusterNode with one calling thread, its receiver thread and its
\* election thread.
NextClusterNode ==
    \/ \E r \in PlainRequests(nreq + 1) : CnCall(Main, r)
    \/ CnAcquire(Main)
    \/ CnApply(Main)
    \/ CnReplicate(Main)
    \/ \E r \in PlainRequests(nreq + 1) : PrimarySends(r)
    \/ RxCheck
    \/ RxRecv
    \/ RxAcquire
    \/ RxApply
    \/ ElectBegin
    \/ ElectStopReceiver
    \/ ElectSetPrimary
    \/ ElectStartSender

SpecClusterNode == InitCluster /\ [][NextClusterNode]_vars

(* --------------------- claims on the cluster node ----------------------- *)
\* the threads that are inside a mutation of the map: between taking their
\* lock and the end of their apply, WAL-append and snapshot sequence
Mutators ==
    {t \in Threads : pc[t] \in {"apply", "wal", "snap", "cn_apply"}}
    \cup (IF rx.pc = "apply" THEN {Receiver} ELSE {})

\* two mutations of the map are under way at once
MutationsInterleave == Cardinality(Mutators) > 1

\* C9 (I4, single writer): every thread inside a mutation of the map holds
\* the store's engine lock, so that at most one mutation is under way.
C9_SingleWriter == \A m \in Mutators : lock = m

IsMutating(r) == r.method \in {"set", "delete", "bulk_set"}

\* C10: when the handler of a node that is not primary dispatches a set,
\* delete or bulk_set request, it answers ok:false "not primary", and neither
\* that step nor the sending of the answer changes the map, the WAL, the
\* snapshot or what the node sent to its peers.
C10_NonPrimaryRejects ==
    [][\A t \in Threads :
         /\ (pc[t] = "dispatch" /\ pc'[t] # "dispatch" /\ IsMutating(req[t])
                /\ ~isPrimary)
              => /\ pc'[t] = "answer"
                 /\ resp'[t] = NotPrimary
                 /\ UNCHANGED <<data, wal, snapshot, sent>>
         /\ (pc[t] = "answer" /\ pc'[t] # "answer" /\ resp[t] = NotPrimary)
              => UNCHANGED <<data, wal, snapshot, sent>>]_vars

\* a bulk_set refused by a secondary whose map holds replicated data
C10_Witness ==
    \E t \in Threads :
        /\ pc[t] = "answer" /\ resp[t] = NotPrimary
        /\ req[t].method = "bulk_set" /\ Len(req[t].items) = MaxItems
        /\ ~isPrimary /\ data # EmptyMap

(* ------------------------- claims on the role --------------------------- *)
\* C11 (I5, role monotonicity): within a process life is_primary only ever
\* changes from false to true; once true it stays true.
C11_RoleMonotonic == [][isPrimary => isPrimary']_vars

\* a node that started as a secondary, promoted, its sender started
C11_Witness == isPrimary /\ stopFlag /\ sender /\ el = "sleep"

(* ------------------ the three-node cluster: replication ----------------- *)
\* writes accepted by the fleet over a whole run
MaxWrites == 2

nodeVars == <<up, storeVars, pc, req, idx, ret, rid, seenAcked, view,
              histVars, clusterVars, connVars>>

Min(S) == CHOOSE x \in S : \A y \in S : x <= y

\* the other nodes in the order of the port lists on the command line
RECURSIVE Ascending(_)
Ascending(S) == IF S = {} THEN <<>> ELSE <<Min(S)>> \o Ascending(S \ {Min(S)})
PeersOf(n) == Ascending(Nodes \ {n})

\* ReplicationSender.connect: the peers whose receiver accepts, in list
\* order; a refused dial is dropped for good
Dial(n) == SelectSeq(PeersOf(n), LAMBDA p : nodeUp[p] /\ listening[p])

\* the dead list of send: the indexes whose sendall raised, in loop order
DeadIndexes(cs, fails) == Ascending({i \in 1..Len(cs) : i \in fails})

RemoveAt(cs, i) ==
    IF i > Len(cs) THEN cs ELSE SubSeq(cs, 1, i - 1) \o SubSeq(cs, i + 1, Len(cs))

\* mutant: the dead connections deleted in loop order, the indexes shifting
RECURSIVE CloseDeadForward(_, _)
CloseDeadForward(cs, dead) ==
    IF dead = <<>> THEN cs
    ELSE CloseDeadForward(RemoveAt(cs, Head(dead)), Tail(dead))

\* `for i in reversed(dead): close; del self._conns[i]`
RECURSIVE CloseDead(_, _)
CloseDead(cs, dead) ==
    IF dead = <<>> THEN cs
    ELSE CloseDead(RemoveAt(cs, dead[Len(dead)]), SubSeq(dead, 1, Len(dead) - 1))

\* the sendall loop: the line reaches every connection whose write succeeds
SendAll(w, cs, fails, x) ==
    [p \in Nodes |->
        IF \E i \in 1..Len(cs) : i \notin fails /\ cs[i] = p
        THEN Append(w[p], x) ELSE w[p]]

\* node 0 at start: sender.connect() before the client port is served
SenderConnect(n) ==
    /\ nodeUp[n] /\ nodeRole[n] /\ boot[n] = "start"
    /\ conns' = [conns EXCEPT ![n] = Dial(n)]
    /\ boot' = [boot EXCEPT ![n] = "run"]
    /\ UNCHANGED <<nodeVars, nrecv, nodeUp, nodeRole, nodeLock, listening, wire, maps,
                   probe, hand, ackedMap, nwrites>>

\* a secondary at start: the receiver thread binds and listens
ReceiverStart(n) ==
    /\ nodeUp[n] /\ ~nodeRole[n] /\ boot[n] = "start"
    /\ listening' = [listening EXCEPT ![n] = TRUE]
    /\ boot' = [boot EXCEPT ![n] = "run"]
    /\ UNCHANGED <<nodeVars, nrecv, nodeUp, nodeRole, nodeLock, conns, wire, maps,
                   probe, hand, ackedMap, nwrites>>

RECURSIVE SumOver(_, _)
SumOver(f, S) == IF S = {} THEN 0 ELSE f[Min(S)] + SumOver(f, S \ {Min(S)})
\* mutations accepted by the fleet so far; the next one gets the next id
TotalWrites == SumOver(nwrites, Nodes)

FleetRequests(i) == {r \in SetRequests(i) \cup DeleteRequests : ~r.debug}

\* apply_and_replicate on a primary, the block under the store lock
FleetApply(n, r) ==
    /\ nodeUp[n] /\ nodeRole[n] /\ boot[n] = "run"
    /\ hand[n].pc = "idle"
    /\ TotalWrites < MaxWrites
    /\ nwrites' = [nwrites EXCEPT ![n] = nwrites[n] + 1]
    /\ maps' = [maps EXCEPT ![n] = ApplyEntry(maps[n], EntryOf(r))]
    /\ hand' = [hand EXCEPT ![n] = [pc |-> "send", e |-> EntryOf(r), fails |-> {}]]
    /\ UNCHANGED <<nodeVars, nrecv, nodeUp, nodeRole, nodeLock, boot, listening, conns,
                   wire, probe, ackedMap>>

\* `if sender: sender.send(entry)`: the writes in fails raise OSError
FleetSend(n, fails) ==
    /\ nodeUp[n] /\ hand[n].pc = "send"
    /\ fails \subseteq 1..Len(conns[n])
    /\ wire' = SendAll(wire, conns[n], fails, hand[n].e)
    /\ conns' = [conns EXCEPT ![n] = CloseDead(conns[n], DeadIndexes(conns[n], fails))]
    /\ hand' = [hand EXCEPT ![n].pc = "ack", ![n].fails = fails]
    /\ UNCHANGED <<nodeVars, nrecv, nodeUp, nodeRole, nodeLock, boot, listening, maps,
                   probe, ackedMap, nwrites>>

\* conn.sendall(encode_response(True))
FleetAck(n) ==
    /\ nodeUp[n] /\ hand[n].pc = "ack"
    /\ hand' = [hand EXCEPT ![n] = IdleHand]
    /\ ackedMap' = IF n = 0 THEN maps[n] ELSE ackedMap
    /\ UNCHANGED <<nodeVars, nrecv, nodeUp, nodeRole, nodeLock, boot, listening, conns,
                   wire, maps, probe, nwrites>>

\* the receiver of a secondary reads one line and applies it to the map
\* without logging it
FleetReceive(n) ==
    /\ nodeUp[n] /\ listening[n] /\ wire[n] # <<>>
    /\ maps' = [maps EXCEPT ![n] = ApplyEntry(maps[n], Head(wire[n]))]
    /\ wire' = [wire EXCEPT ![n] = Tail(wire[n])]
    /\ nrecv' = [nrecv EXCEPT ![n] = nrecv[n] + 1]
    /\ UNCHANGED <<nodeVars, nodeUp, nodeRole, nodeLock, boot, listening, conns,
                   probe, hand, ackedMap, nwrites>>

\* SIGKILL of node 0
KillPrimary ==
    /\ nodeUp[0]
    /\ nodeUp' = [nodeUp EXCEPT ![0] = FALSE]
    /\ hand' = [hand EXCEPT ![0] = IdleHand]
    /\ UNCHANGED <<nodeVars, nrecv, nodeRole, nodeLock, boot, listening, conns, wire,
                   maps, probe, ackedMap, nwrites>>

(* ------------------- the three-node cluster: election ------------------- *)
\* election_loop of a secondary: after the sleeps, with is_primary still
\* false, a round of role probes begins
ElectionTick(n) ==
    /\ nodeUp[n] /\ n \in Secondaries
    /\ probe[n].pc = "sleep"
    /\ nodeLock[n] = NoThread /\ ~nodeRole[n]
    /\ probe' = [probe EXCEPT ![n] =
                   [pc |-> "probing", todo |-> PeersOf(n), other |-> FALSE, saw |-> {}]]
    /\ UNCHANGED <<nodeVars, nrecv, nodeUp, nodeRole, nodeLock, boot, listening, conns,
                   wire, maps, hand, ackedMap, nwrites>>

\* mutant: a peer that does not answer counted as a primary
ProbePeerDeadCounts(n) ==
    /\ nodeUp[n] /\ probe[n].pc = "probing" /\ probe[n].todo # <<>>
    /\ LET p == Head(probe[n].todo) IN
       /\ ~nodeUp[p] \/ nodeLock[p] = NoThread
       /\ probe' = [probe EXCEPT ![n] =
            IF ~nodeUp[p] \/ (nodeRole[p] /\ p < n)
            THEN [pc |-> "probing", todo |-> <<>>, other |-> TRUE,
                  saw |-> probe[n].saw \cup (IF nodeUp[p] THEN {p} ELSE {})]
            ELSE [probe[n] EXCEPT !.todo = Tail(probe[n].todo),
                    !.saw = probe[n].saw \cup (IF nodeRole[p] THEN {p} ELSE {})]]
    /\ UNCHANGED <<nodeVars, nrecv, nodeUp, nodeRole, nodeLock, boot, listening, conns,
                   wire, maps, hand, ackedMap, nwrites>>

\* mutant: the answers to the role probes ignored
ProbePeerIgnoresAnswer(n) ==
    /\ nodeUp[n] /\ probe[n].pc = "probing" /\ probe[n].todo # <<>>
    /\ LET p == Head(probe[n].todo) IN
       /\ ~nodeUp[p] \/ nodeLock[p] = NoThread
       /\ probe' = [probe EXCEPT ![n] =
            [probe[n] EXCEPT !.todo = Tail(probe[n].todo),
               !.saw = probe[n].saw \cup (IF nodeUp[p] /\ nodeRole[p] THEN {p} ELSE {})]]
    /\ UNCHANGED <<nodeVars, nrecv, nodeUp, nodeRole, nodeLock, boot, listening, conns,
                   wire, maps, hand, ackedMap, nwrites>>

\* One turn of the probe loop: connect to the next peer's client port and ask
\* its role.  A dead peer refuses the connection (the exception is passed
\* over); a live one answers under its role lock; the loop breaks on an answer
\* primary true with a smaller node_id.  saw: the peers that answered primary.
ProbePeer(n) ==
    /\ nodeUp[n] /\ probe[n].pc = "probing" /\ probe[n].todo # <<>>
    /\ LET p == Head(probe[n].todo) IN
       /\ ~nodeUp[p] \/ nodeLock[p] = NoThread
       /\ probe' = [probe EXCEPT ![n] =
            IF nodeUp[p] /\ nodeRole[p] /\ p < n
            THEN [pc |-> "probing", todo |-> <<>>, other |-> TRUE,
                  saw |-> probe[n].saw \cup {p}]
            ELSE [probe[n] EXCEPT !.todo = Tail(probe[n].todo),
                    !.saw = probe[n].saw \cup
                              (IF nodeUp[p] /\ nodeRole[p] THEN {p} ELSE {})]]
    /\ UNCHANGED <<nodeVars, nrecv, nodeUp, nodeRole, nodeLock, boot, listening, conns,
                   wire, maps, hand, ackedMap, nwrites>>

\* the peer's role lock is held by its own promotion: the 1 s read times out
\* and the exception is passed over
ProbeTimeout(n) ==
    /\ nodeUp[n] /\ probe[n].pc = "probing" /\ probe[n].todo # <<>>
    /\ LET p == Head(probe[n].todo) IN
       /\ nodeUp[p] /\ nodeLock[p] # NoThread
       /\ probe' = [probe EXCEPT ![n].todo = Tail(probe[n].todo)]
    /\ UNCHANGED <<nodeVars, nrecv, nodeUp, nodeRole, nodeLock, boot, listening, conns,
                   wire, maps, hand, ackedMap, nwrites>>

\* the end of the round: `if other_primary: continue`, else `with lock:`
ProbeDone(n) ==
    /\ nodeUp[n] /\ probe[n].pc = "probing" /\ probe[n].todo = <<>>
    /\ IF probe[n].other
       THEN /\ probe' = [probe EXCEPT ![n] = IdleProbe]
            /\ UNCHANGED nodeLock
       ELSE /\ nodeLock[n] = NoThread
            /\ nodeLock' = [nodeLock EXCEPT ![n] = Election]
            /\ probe' = [probe EXCEPT ![n].pc = "stop"]
    /\ UNCHANGED <<nodeVars, nrecv, nodeUp, nodeRole, boot, listening, conns, wire,
                   maps, hand, ackedMap, nwrites>>

\* receiver.stop(): what is still unread on the connection is never applied
PromoteStop(n) ==
    /\ nodeUp[n] /\ probe[n].pc = "stop"
    /\ listening' = [listening EXCEPT ![n] = FALSE]
    /\ probe' = [probe EXCEPT ![n].pc = "set"]
    /\ UNCHANGED <<nodeVars, nrecv, nodeUp, nodeRole, nodeLock, boot, conns, wire,
                   maps, hand, ackedMap, nwrites>>

\* is_primary = True
PromoteSet(n) ==
    /\ nodeUp[n] /\ probe[n].pc = "set"
    /\ nodeRole' = [nodeRole EXCEPT ![n] = TRUE]
    /\ probe' = [probe EXCEPT ![n].pc = "sender"]
    /\ UNCHANGED <<nodeVars, nrecv, nodeUp, nodeLock, boot, listening, conns, wire,
                   maps, hand, ackedMap, nwrites>>

\* sender = ReplicationSender(peers); sender.connect(); the lock released
PromoteSender(n) ==
    /\ nodeUp[n] /\ probe[n].pc = "sender"
    /\ conns' = [conns EXCEPT ![n] = Dial(n)]
    /\ nodeLock' = [nodeLock EXCEPT ![n] = NoThread]
    /\ probe' = [probe EXCEPT ![n] = IdleProbe]
    /\ UNCHANGED <<nodeVars, nrecv, nodeUp, nodeRole, boot, listening, wire, maps,
                   hand, ackedMap, nwrites>>

ElectionStep(n) ==
    \/ ElectionTick(n)
    \/ ProbePeer(n)
    \/ ProbeTimeout(n)
    \/ ProbeDone(n)
    \/ PromoteStop(n)
    \/ PromoteSet(n)
    \/ PromoteSender(n)

InitFleet == StoreInit /\ NodeInit(0) /\ FleetInit /\ ConnInit

NextFleet ==
    \/ SenderConnect(0)
    \/ \E n \in Secondaries : ReceiverStart(n)
    \/ \E n \in Nodes, r \in FleetRequests(TotalWrites + 1) : FleetApply(n, r)
    \/ \E n \in Nodes : \E fails \in SUBSET DOMAIN conns[n] : FleetSend(n, fails)
    \/ \E n \in Nodes : FleetAck(n)
    \/ \E n \in Secondaries : FleetReceive(n)
    \/ KillPrimary
    \/ \E n \in Secondaries : ElectionTick(n)
    \/ \E n \in Secondaries : ProbePeer(n)
    \/ \E n \in Secondaries : ProbeTimeout(n)
    \/ \E n \in Secondaries : ProbeDone(n)
    \/ \E n \in Secondaries : PromoteStop(n)
    \/ \E n \in Secondaries : PromoteSet(n)
    \/ \E n \in Secondaries : PromoteSender(n)

SpecFleet == InitFleet /\ [][NextFleet]_vars

\* the election threads are scheduled fairly
SpecFleetFair ==
    SpecFleet /\ \A n \in Secondaries : WF_vars(ElectionStep(n))

(* -------------------- claims on the three-node cluster ------------------ *)
\* node n answers a role query with primary true
Reports(n) == nodeUp[n] /\ nodeRole[n] /\ nodeLock[n] = NoThread

\* C12 (P7, election liveness): with node 0 killed and staying down, nodes 1
\* and 2 running and their election loops scheduled fairly, eventually node 1
\* or node 2 reports is_primary true.
C12_ElectionLiveness == (~nodeUp[0]) ~> (\E n \in Secondaries : Reports(n))

\* node 0 is down and node 1, promoted, answers role queries
C12_Witness == ~nodeUp[0] /\ Reports(1) /\ probe[1].pc = "sleep"

\* C13: failover keeps acknowledged data: once node 0 is dead, a promoted
\* node that has not yet accepted a mutation of its own holds under every
\* key the value node 0 had acknowledged (or the value of a later mutation
\* node 0 had applied and not yet acknowledged).
C13_FailoverKeepsAcked ==
    \A n \in Secondaries :
        (~nodeUp[0] /\ Reports(n) /\ nwrites[n] = 0) =>
            \A k \in Keys : maps[n][k] \in {ackedMap[k], maps[0][k]}

\* the election thread of n is past its decision to promote
Promoting(n) == probe[n].pc \in {"stop", "set", "sender"}

\* C14 (election safety): a secondary promotes in a round only if no node
\* probed in that round answered primary true with a smaller node_id; and
\* while node 0, primary from the start, is up, no secondary is or becomes
\* primary.
C14_ElectionSafety ==
    /\ \A n \in Secondaries : Promoting(n) => \A p \in probe[n].saw : p > n
    /\ nodeUp[0] => \A n \in Secondaries : ~nodeRole[n] /\ ~Promoting(n)

\* node 2 abandons a round on the answer of node 1, promoted before
C14_Witness ==
    /\ probe[2].pc = "probing" /\ probe[2].other /\ probe[2].saw = {1}
    /\ ~nodeUp[0] /\ nodeRole[1] /\ ~nodeRole[2]

\* C15 (lowest-id tie-break): a secondary is primary, or on its way to it,
\* only if no secondary with a smaller node_id is up.
C15_LowestIdWins ==
    \A n \in Secondaries :
        (nodeRole[n] \/ Promoting(n)) =>
            ~\E m \in Secondaries : m < n /\ nodeUp[m]

\* C18 (broadcast failure isolation): one broadcast writes the entry once to
\* every live connection whose write succeeds and to no other; the
\* connections whose write failed, and only they, leave the live set; and
\* the handler goes on to acknowledge the mutation whatever failed.
C18_BroadcastIsolation ==
    [][\A n \in Nodes :
         (hand[n].pc = "send" /\ hand'[n] # hand[n] /\ nodeUp'[n]) =>
            LET cs == conns[n]
                dead == hand'[n].fails
                live == {cs[i] : i \in (1..Len(cs)) \ dead}
            IN /\ hand'[n].pc = "ack"
               /\ \A p \in Nodes :
                    wire'[p] = IF p \in live THEN Append(wire[p], hand[n].e)
                               ELSE wire[p]
               /\ Range(conns'[n]) = live
               /\ Len(conns'[n]) = Len(cs) - Cardinality(dead)
               /\ \A m \in Nodes \ {n} : conns'[m] = conns[m]]_vars

\* node 0 broadcast to two connections: the first write failed, the second
\* peer got the entry, the mutation is about to be acknowledged
C18_Witness ==
    /\ hand[0].pc = "ack" /\ hand[0].fails = {1}
    /\ conns[0] = <<2>>
    /\ wire[1] = <<>> /\ wire[2] = <<hand[0].e>>

(* --------------- a primary with concurrent client connections ----------- *)
\* Node 0 of the cluster, its sender connected, a handler thread per client
\* connection.
NextPrimary ==
    \/ \E t \in Threads, r \in {RoleRequest} \cup PlainRequests(nreq + 1) :
          ClusterRecv(t, r)
    \/ \E t \in Threads : Dispatch(t)
    \/ \E t \in Threads : Acquire(t)
    \/ \E t \in Threads : Apply(t)
    \/ \E t \in Threads : AppendWal(t)
    \/ \E t \in Threads : ClusterSaveSnapshot(t)
    \/ \E t \in Threads : ClusterSend(t)
    \/ \E t \in Threads : Reply(t)
    \/ \E t \in Threads : ClusterAnswer(t)

SpecPrimary == Init /\ [][NextPrimary]_vars

\* C16 (replication order): the entries are handed to the peer connections
\* in the order in which the primary appended them to its WAL.
C16_SentInWalOrder ==
    \A i \in 1..Len(sent), j \in 1..Len(sent) :
        i < j => PosOf(sent[i]) < PosOf(sent[j])

(* ------------------- claims on single requests -------------------------- *)
EmptyBulk(r) == r.method = "bulk_set" /\ r.items = <<>>

\* the request thread t is handling during a step (read by the step itself
\* when t was idle)
Handling(t) == IF pc[t] = "idle" THEN req'[t] ELSE req[t]

\* C19: an empty bulk_set is a success no-op: every step of its handler, from
\* the reading of the request to the ok, leaves the map, the WAL, the
\* snapshot, the store lock and what was sent to the peers unchanged, and the
\* handler goes to the ok without an error answer (through the role check on
\* a cluster node, straight from the request on the standalone server).
C19_EmptyBulkNoOp ==
    [][\A t \in Threads :
         (pc'[t] # pc[t] /\ EmptyBulk(Handling(t))) =>
            /\ <<pc[t], pc'[t]>> \in {<<"idle", "dispatch">>, <<"dispatch", "reply">>,
                                      <<"idle", "reply">>, <<"reply", "idle">>}
            /\ UNCHANGED <<data, lock, wal, snapshot, sent, ackOrder>>]_vars

\* the ok of an empty bulk_set about to be sent by a primary whose map and
\* WAL are not empty
C19_Witness ==
    \E t \in Threads :
        /\ pc[t] = "reply" /\ EmptyBulk(req[t])
        /\ data # EmptyMap /\ wal # <<>> /\ sent # <<>>

\* C20: a delete, of an absent key too, is logged, broadcast and
\* acknowledged: its apply leaves a map without the key unchanged, then
\* exactly one delete record is appended to the WAL, the entry is sent to
\* the peers and the ok follows.
C20_DeleteOfAbsentKey ==
    [][\A t \in Threads :
         (pc'[t] # pc[t] /\ req[t].method = "delete") =>
            LET k == req[t].key IN
            /\ pc[t] = "apply" =>
                 /\ pc'[t] = "wal"
                 /\ data[k] = Missing => data' = data
            /\ pc[t] = "wal" =>
                 /\ pc'[t] = "snap"
                 /\ wal' = wal \o <<JsonToken([op |-> "delete", key |-> k], rid[t]),
                                   NewLine>>
            /\ pc[t] = "snap" => pc'[t] = "send"
            /\ pc[t] = "send" => pc'[t] = "reply" /\ sent' = Append(sent, rid[t])
            /\ pc[t] = "reply" => ackOrder' = Append(ackOrder, rid[t])]_vars

\* the first mutation of a run, the delete of a key never set, logged and
\* sent, its ok about to go
C20_Witness ==
    \E t \in Threads :
        /\ pc[t] = "reply" /\ req[t].method = "delete"
        /\ serial = <<EntryOf(req[t])>>
        /\ data = EmptyMap
        /\ wal = EncodeLine(EntryOf(req[t]), rid[t])
        /\ sent = <<rid[t]>>


\* ---------------------------------------------------------------------
\* Masterless nodes (masterless_node.py): every node runs a receiver and a
\* broadcaster to all its peers, and every node accepts writes.  A
\* masterless node has no role: nodeRole, nodeLock and probe are not read.

\* receiver.start(): the receiver thread binds and listens
MeshListen(n) ==
    /\ nodeUp[n] /\ ~listening[n]
    /\ listening' = [listening EXCEPT ![n] = TRUE]
    /\ UNCHANGED <<nodeVars, nrecv, nodeUp, nodeRole, nodeLock, boot, conns, wire,
                   maps, probe, hand, ackedMap, nwrites>>

\* broadcaster.connect(): one dial per peer, a refused dial is dropped
MeshConnect(n) ==
    /\ nodeUp[n] /\ boot[n] = "start"
    /\ conns' = [conns EXCEPT ![n] = Dial(n)]
    /\ boot' = [boot EXCEPT ![n] = "run"]
    /\ UNCHANGED <<nodeVars, nrecv, nodeUp, nodeRole, nodeLock, listening, wire,
                   maps, probe, hand, ackedMap, nwrites>>

\* apply_and_broadcast, the block under the store lock
MeshApply(n, r) ==
    /\ nodeUp[n] /\ boot[n] = "run"
    /\ hand[n].pc = "idle"
    /\ TotalWrites < MaxWrites
    /\ nwrites' = [nwrites EXCEPT ![n] = nwrites[n] + 1]
    /\ maps' = [maps EXCEPT ![n] = ApplyEntry(maps[n], EntryOf(r))]
    /\ hand' = [hand EXCEPT ![n] = [pc |-> "send", e |-> EntryOf(r), fails |-> {}]]
    /\ UNCHANGED <<nodeVars, nrecv, nodeUp, nodeRole, nodeLock, boot, listening,
                   conns, wire, probe, ackedMap>>

\* broadcaster.broadcast(entry), after the store lock is released
MeshBroadcast(n, fails) ==
    /\ nodeUp[n] /\ hand[n].pc = "send"
    /\ fails \subseteq 1..Len(conns[n])
    /\ wire' = SendAll(wire, conns[n], fails, hand[n].e)
    /\ conns' = [conns EXCEPT ![n] = CloseDead(conns[n], DeadIndexes(conns[n], fails))]
    /\ hand' = [hand EXCEPT ![n].pc = "ack", ![n].fails = fails]
    /\ UNCHANGED <<nodeVars, nrecv, nodeUp, nodeRole, nodeLock, boot, listening,
                   maps, probe, ackedMap, nwrites>>

\* conn.sendall(encode_response(True))
MeshAck(n) ==
    /\ nodeUp[n] /\ hand[n].pc = "ack"
    /\ hand' = [hand EXCEPT ![n] = IdleHand]
    /\ UNCHANGED <<nodeVars, nrecv, nodeUp, nodeRole, nodeLock, boot, listening,
                   conns, wire, maps, probe, ackedMap, nwrites>>

\* ReplicationReceiver._handle: one line is read and applied under the
\* store lock; it is not broadcast again
MeshReceive(n) ==
    /\ nodeUp[n] /\ listening[n] /\ wire[n] # <<>>
    /\ maps' = [maps EXCEPT ![n] = ApplyEntry(maps[n], Head(wire[n]))]
    /\ wire' = [wire EXCEPT ![n] = Tail(wire[n])]
    /\ nrecv' = [nrecv EXCEPT ![n] = nrecv[n] + 1]
    /\ UNCHANGED <<nodeVars, nodeUp, nodeRole, nodeLock, boot, listening, conns,
                   probe, hand, ackedMap, nwrites>>

InitMesh == StoreInit /\ NodeInit(0) /\ FleetInit /\ ConnInit

NextMesh ==
    \/ \E n \in Nodes : MeshListen(n)
    \/ \E n \in Nodes : MeshConnect(n)
    \/ \E n \in Nodes, r \in FleetRequests(TotalWrites + 1) : MeshApply(n, r)
    \/ \E n \in Nodes : \E fails \in SUBSET DOMAIN conns[n] : MeshBroadcast(n, fails)
    \/ \E n \in Nodes : MeshAck(n)
    \/ \E n \in Nodes : MeshReceive(n)

SpecMesh == InitMesh /\ [][NextMesh]_vars

\* every node has applied its own writes and the entry of every write made
\* at another node
AllDelivered ==
    \A n \in Nodes :
        /\ hand[n].pc = "idle"
        /\ nrecv[n] = TotalWrites - nwrites[n]

\* C17: once every node has applied its own writes and has received every
\* other node's broadcast entry exactly once, all nodes hold the same value
\* for every key
C17_MasterlessConvergence ==
    AllDelivered => \A n, m \in Nodes : \A k \in Keys : maps[n][k] = maps[m][k]

\* ---------------------------------------------------------------------
\* One client connection, line by line: handle_client of server.py, of
\* cluster_node.py and of masterless_node.py, from the bytes of a request
\* line to the bytes of its response line.

\* request lines read on one connection
MaxLines == 3

Kinds == {"server", "cluster", "masterless"}

\* a JSON number where a [key, value] pair is expected: tuple(pair) raises
\* TypeError
NotAPair == <<"number">>

\* a JSON object; req.get gives None for a field that is absent or null
Obj(m, k, v, its) ==
    [t |-> "json", obj |-> TRUE, method |-> m, key |-> k, value |-> v, items |-> its]

LineValue == ValueOf(1, 1)

\* bytes that are not JSON; JSON that is not an object; objects
RequestLines ==
    {[t |-> "text"], [t |-> "json", obj |-> FALSE]}
    \cup {Obj(m, k, None, <<>>) : m \in {"get", "delete"}, k \in Keys \cup {None}}
    \cup {Obj("set", k, v, <<>>) : k \in Keys \cup {None}, v \in {LineValue, None}}
    \cup {Obj("bulk_set", None, None, its) :
            its \in {<<>>, <<NotAPair>>} \cup {<< <<k, LineValue>> >> : k \in Keys}}
    \cup {Obj(m, None, None, <<>>) : m \in {"role", "frob", None}}

\* protocol.encode_response: value and error are left out when they are None
EncodeResponse(ok, value, error) ==
    [f \in {"ok"} \cup (IF value # None THEN {"value"} ELSE {})
                  \cup (IF error # None THEN {"error"} ELSE {}) |->
        CASE f = "ok" -> ok
          [] f = "value" -> value
          [] f = "error" -> error]

\* json.dumps({"ok": True, "primary": is_primary, "node_id": node_id})
RoleAnswer(p) == [f \in {"ok", "primary", "node_id"} |-> IF f = "ok" THEN TRUE ELSE p]

\* what the handler does with one line: it sends resp, or it raises out of
\* the handler (dies) and sends nothing; entry is what it applies and logs
Answers(r) == [dies |-> FALSE, resp |-> r, entry |-> NoEntry]
Applies(e) == [dies |-> FALSE, resp |-> EncodeResponse(TRUE, None, None), entry |-> e]
Raises == [dies |-> TRUE, resp |-> NoLine, entry |-> NoEntry]

\* an exception raised while the request is handled: server.py and
\* cluster_node.py catch it and answer str(e), masterless_node.py has no
\* try around the dispatch
Raised(k) ==
    IF k = "masterless" THEN Raises
    ELSE Answers(EncodeResponse(FALSE, None, "exception text"))

MissingKey == Answers(EncodeResponse(FALSE, None, "missing key"))

\* the dispatch on the method, for a request that is a JSON object
DispatchLine(k, l, m) ==
    CASE l.method = "get" ->
            IF l.key = None THEN MissingKey
            ELSE Answers(EncodeResponse(TRUE, GetValue(m, l.key), None))
      [] l.method = "set" ->
            IF l.key = None THEN MissingKey
            ELSE Applies([op |-> "set", key |-> l.key, value |-> l.value])
      [] l.method = "delete" ->
            IF l.key = None THEN MissingKey
            ELSE Applies([op |-> "delete", key |-> l.key])
      [] l.method = "bulk_set" ->
            IF \E i \in 1..Len(l.items) : l.items[i] = NotAPair THEN Raised(k)
            ELSE IF l.items = <<>> THEN Answers(EncodeResponse(TRUE, None, None))
            ELSE Applies([op |-> "bulk", items |-> l.items])
      [] OTHER -> Answers(EncodeResponse(FALSE, None, "unknown method"))

\* handle_client on one line.  json.loads fails: invalid request.  The
\* request is not a dict: req.get raises AttributeError before the inner
\* try.  The cluster node answers role and refuses the rest when it is not
\* primary.
Outcome(k, l, m) ==
    IF l.t = "text" THEN Answers(EncodeResponse(FALSE, None, "invalid request"))
    ELSE IF ~l.obj THEN Raises
    ELSE IF k = "cluster" /\ l.method = "role" THEN Answers(RoleAnswer(isPrimary))
    ELSE IF k = "cluster" /\ ~isPrimary
    THEN Answers(EncodeResponse(FALSE, None, "not primary"))
    ELSE DispatchLine(k, l, m)

\* the handler reads one line and handles it to the end
ServeLine(l) ==
    /\ up /\ connOpen /\ nlines < MaxLines
    /\ LET o == Outcome(kind, l, data) IN
       /\ lineIn' = l
       /\ nlines' = nlines + 1
       /\ connOpen' = ~o.dies
       /\ out' = IF o.dies THEN out ELSE Append(out, o.resp)
       /\ IF o.entry = NoEntry
          THEN UNCHANGED <<data, wal, snapshot, nreq, sent>>
          ELSE /\ data' = ApplyEntry(data, o.entry)
               /\ wal' = WalAppended(wal, o.entry, nreq + 1)
               /\ snapshot' = SnapshotWritten(snapshot, data', FALSE)
               /\ nreq' = nreq + 1
               /\ sent' = IF kind = "masterless" \/ (kind = "cluster" /\ sender)
                          THEN Append(sent, nreq + 1) ELSE sent
    /\ UNCHANGED <<up, lock, pc, req, idx, ret, rid, seenAcked, view, kills,
                   everSkipped, ackOrder, serial, base, isPrimary, roleLock,
                   sender, stopFlag, inbox, rx, el, resp, kind, nodeUp,
                   nodeRole, nodeLock, boot, listening, conns, wire, maps,
                   probe, hand, ackedMap, nwrites, nrecv, client, sideVars>>

InitLine ==
    /\ StoreInit /\ FleetInit
    /\ \E id \in NodeIds : NodeInit(id)
    /\ \E k \in Kinds : ConnStart(k)
    /\ client = IdleClient

NextLine == \E l \in RequestLines : ServeLine(l)

SpecLine == InitLine /\ [][NextLine]_vars

\* the response to the line read last, when the handler sent one
Answered == connOpen /\ nlines > 0 /\ Len(out) = nlines
LastOut == out[Len(out)]

\* C21: the response to a get carries value null for a key stored with
\* the value null and has no value field for a key that is not in the map
C21_GetTellsNullFromAbsent ==
    (Answered /\ lineIn.t = "json" /\ lineIn.obj /\ lineIn.method = "get"
        /\ lineIn.key # None /\ LastOut.ok) =>
    /\ data[lineIn.key] = Missing => "value" \notin DOMAIN LastOut
    /\ data[lineIn.key] = None => ("value" \in DOMAIN LastOut /\ LastOut.value = None)

\* the request lines that are in error: unparseable, not a JSON object, a
\* key that is missing, a method that is not known, items that make the
\* handling raise
ErrorLine(k, l) ==
    \/ l.t = "text"
    \/ l.t = "json" /\ ~l.obj
    \/ /\ l.t = "json" /\ l.obj
       /\ \/ l.method \in {"get", "set", "delete"} /\ l.key = None
          \/ l.method \in {"frob", None}
          \/ l.method = "role" /\ k # "cluster"
          \/ l.method = "bulk_set" /\ \E i \in 1..Len(l.items) : l.items[i] = NotAPair

\* C22: a request line in error yields exactly one response line with
\* ok false and an error, and the connection stays open for the next
\* request, on the standalone server, the cluster node and the masterless
\* node
C22_ErrorsKeepConnection ==
    (nlines > 0 /\ ErrorLine(kind, lineIn)) =>
        /\ Answered
        /\ ~LastOut.ok
        /\ "error" \in DOMAIN LastOut

\* ---------------------------------------------------------------------
\* ClusterKVClient (cluster_client.py) against three cluster nodes that are
\* killed, restarted and promoted while the client is in a call.

\* kills of cluster nodes over a whole run
MaxCrashes == 3
\* `for attempt in range(10)` in _discover_primary
Attempts == 10

\* self._kv_ports
Ports == <<0, 1, 2>>

\* SIGKILL of a cluster node
NodeKill(n) ==
    /\ nodeUp[n] /\ kills < MaxCrashes
    /\ kills' = kills + 1
    /\ nodeUp' = [nodeUp EXCEPT ![n] = FALSE]
    /\ UNCHANGED <<up, storeVars, pc, req, idx, ret, rid, seenAcked, view, nreq,
                   everSkipped, ackOrder, serial, base, clusterVars, connVars,
                   nodeRole, nodeLock, boot, listening, conns, wire, maps,
                   probe, hand, ackedMap, nwrites, nrecv>>

\* the node is started again: is_primary = node_id == 0
NodeStart(n) ==
    /\ ~nodeUp[n]
    /\ nodeUp' = [nodeUp EXCEPT ![n] = TRUE]
    /\ nodeRole' = [nodeRole EXCEPT ![n] = (n = 0)]
    /\ UNCHANGED <<nodeVars, nodeLock, boot, listening, conns, wire, maps,
                   probe, hand, ackedMap, nwrites, nrecv>>

\* election_loop of a secondary ends a round in which no peer with a
\* lower id answered as primary: is_primary = True
NodePromotes(n) ==
    /\ nodeUp[n] /\ ~nodeRole[n]
    /\ \A m \in Nodes : m < n => ~(nodeUp[m] /\ nodeRole[m])
    /\ nodeRole' = [nodeRole EXCEPT ![n] = TRUE]
    /\ UNCHANGED <<nodeVars, nodeUp, nodeLock, boot, listening, conns, wire,
                   maps, probe, hand, ackedMap, nwrites, nrecv>>

ClientStep(c) ==
    /\ client' = c
    /\ UNCHANGED <<up, storeVars, pc, req, idx, ret, rid, seenAcked, view,
                   histVars, clusterVars, kind, connOpen, lineIn, nlines, out,
                   sideVars, nodeUp, nodeRole, nodeLock, boot, listening, conns, wire,
                   maps, probe, hand, ackedMap, nwrites, nrecv>>

\* Get(key): the outermost _request
ClientCall ==
    /\ client.pc = "idle"
    /\ ClientStep([client EXCEPT !.pc = "port", !.retries = 0])

\* _get_primary_port
ClientGetPort ==
    /\ client.pc = "port"
    /\ ClientStep(IF client.cached = {}
                  THEN [client EXCEPT !.pc = "probe", !.attempt = 0, !.i = 1]
                  ELSE [client EXCEPT !.pc = "request"])

\* _discover_primary asks one port for its role; a dead node, or the last
\* port of the tenth attempt
ClientProbe ==
    /\ client.pc = "probe"
    /\ LET p == Ports[client.i] IN
       ClientStep(
         IF nodeUp[p] /\ nodeRole[p]
         THEN [client EXCEPT !.pc = "request", !.cached = {p}]
         ELSE IF client.i < Len(Ports)
         THEN [client EXCEPT !.i = client.i + 1]
         ELSE IF client.attempt + 1 < Attempts
         THEN [client EXCEPT !.i = 1, !.attempt = client.attempt + 1]
         ELSE [client EXCEPT !.pc = "error"])

\* _request after _get_primary_port: connect, send, read the response; on
\* not primary the cache is cleared and _request calls itself
ClientRequest ==
    /\ client.pc = "request"
    /\ LET p == CHOOSE q \in client.cached : TRUE IN
       ClientStep(
         IF ~nodeUp[p] THEN [client EXCEPT !.pc = "error"]
         ELSE IF ~nodeRole[p]
         THEN [client EXCEPT !.pc = "port", !.cached = {},
                             !.retries = client.retries + 1]
         ELSE [client EXCEPT !.pc = "done"])

\* the call returns its response or raises
ClientReturn ==
    /\ client.pc \in {"done", "error"}
    /\ ClientStep([client EXCEPT !.pc = "idle", !.attempt = 0, !.i = 0])

NextClient ==
    \/ ClientCall
    \/ ClientGetPort
    \/ ClientProbe
    \/ ClientRequest
    \/ ClientReturn
    \/ \E n \in Nodes : NodeKill(n)
    \/ \E n \in Nodes : NodeStart(n)
    \/ \E n \in Secondaries : NodePromotes(n)

SpecClient == InitFleet /\ [][NextClient]_vars

\* C23: within one client call the request is retried after not primary,
\* with one new discovery, at most once
C23_AtMostOneRetry == client.retries <= 1

\* the lines of the WAL file that are not blank
WalLines == SelectSeq(SplitLines(wal, <<>>), LAMBDA l : l # <<>>)

\* how many lines come before the first line that fails to decode
GoodPrefix ==
    LET bad == {i \in 1..Len(WalLines) : ~Decodable(WalLines[i])}
    IN IF bad = {} THEN Len(WalLines) ELSE Min(bad) - 1

\* C24: after a restart the map is the snapshot content (the empty map when
\* the snapshot is missing or unparseable) with exactly the WAL entries
\* applied, in file order, that precede the first line that fails to decode
C24_ReplayStopsAtFirstBadLine ==
    JustStarted =>
        data = ApplyAll(IF snapshot.st = "ok" THEN snapshot.m ELSE EmptyMap,
                        [i \in 1..GoodPrefix |-> WalLines[i][1].e])

\* a restart on a WAL with decodable lines after a line that fails to decode
C24_Witness ==
    /\ JustStarted
    /\ GoodPrefix + 1 < Len(WalLines)
    /\ snapshot.st # "ok"

\* ---------------------------------------------------------------------
\* I/O errors of the two file writes of a mutation on the standalone store.

\* _append_wal raises OSError: nothing reached the file (open failed) or a
\* part of the line did (write, flush or fsync failed); the exception
\* leaves the `with self._lock` block
AppendWalRaises(t, part) ==
    /\ up /\ pc[t] = "wal"
    /\ wal' = IF part THEN Append(wal, PartToken(EntryOf(req[t]), rid[t])) ELSE wal
    /\ lock' = NoThread
    /\ pc' = [pc EXCEPT ![t] = "raise"]
    /\ UNCHANGED <<fleetVars, clusterVars, up, data, snapshot, req, idx, ret,
                   rid, seenAcked, histVars, view>>

\* _save_snapshot raises OSError: before open(path, "w") truncated the
\* file, or after
SaveSnapshotRaises(t, torn) ==
    /\ up /\ pc[t] = "snap"
    /\ snapshot' = IF torn THEN TornSnapshot ELSE snapshot
    /\ lock' = NoThread
    /\ pc' = [pc EXCEPT ![t] = "raise"]
    /\ UNCHANGED <<fleetVars, clusterVars, up, data, wal, req, idx, ret, rid,
                   seenAcked, histVars, view>>

\* except Exception as e: conn.sendall(encode_response(False, error=str(e)))
ReplyError(t) ==
    /\ up /\ pc[t] = "raise"
    /\ pc' = [pc EXCEPT ![t] = "idle"]
    /\ req' = [req EXCEPT ![t] = NoRequest]
    /\ idx' = [idx EXCEPT ![t] = 0]
    /\ rid' = [rid EXCEPT ![t] = 0]
    /\ seenAcked' = [seenAcked EXCEPT ![t] = {}]
    /\ UNCHANGED <<fleetVars, clusterVars, up, storeVars, ret, histVars, view>>

\* One client connection to the standalone server, the file writes failing
\* at will, no kill.
NextIo ==
    \/ \E r \in GetRequests \cup MutatingRequests(nreq + 1) : Recv(Main, r)
    \/ Get(Main)
    \/ Acquire(Main)
    \/ Apply(Main)
    \/ AppendWal(Main)
    \/ \E skip \in BOOLEAN : SaveSnapshot(Main, skip)
    \/ Reply(Main)
    \/ \E part \in BOOLEAN : AppendWalRaises(Main, part)
    \/ \E torn \in BOOLEAN : SaveSnapshotRaises(Main, torn)
    \/ ReplyError(Main)

SpecIo == Init /\ [][NextIo]_vars

\* C25: a snapshot file that parses holds the map that some prefix of the
\* entries written to the WAL gives when applied to the empty map
C25_SnapshotIsWalPrefix ==
    snapshot.st = "ok" =>
        \E n \in 0..Len(Written) :
            snapshot.m = ApplyAll(EmptyMap, [i \in 1..n |-> Written[i].e])

\* C26: an entry sent to the peers is already in the local WAL, the store
\* lock is not held by the thread that sends, and the ok comes after the
\* send
C26_SendAfterLocalWal ==
    /\ \A i \in 1..Len(sent) : Logged(sent[i])
    /\ \A t \in Threads : pc[t] \in {"send", "cn_repl"} => (lock # t /\ Logged(rid[t]))
    /\ sender => \A i \in 1..Len(ackOrder) : ackOrder[i] \in Range(sent)

\* the receiver thread of a secondary takes a step with an entry in hand
ReceiverActs == rx.pc \in {"lock", "apply"} /\ rx' # rx

\* C27: on a secondary, applying a replicated entry changes the map only:
\* the WAL file and the snapshot file stay as they are
C27_InboundLeavesFiles ==
    [][ReceiverActs => (wal' = wal /\ snapshot' = snapshot)]_vars

\* the receiver of a secondary has applied an entry
C27_Witness ==
    /\ ~isPrimary /\ rx.pc = "check"
    /\ data # EmptyMap
    /\ wal = <<>> /\ snapshot = NoSnapshot

\* ---------------------------------------------------------------------
\* The receiver of a masterless node, with kills and restarts of the node.
\* ackOrder also records the replicated entries the receiver has finished
\* with (applied and logged).

\* line = _recv_line(conn); entry = json.loads(line)
MlRecv ==
    /\ up /\ rx.pc = "recv" /\ inbox # <<>>
    /\ rx' = [pc |-> "lock", entry |-> Head(inbox).e, i |-> Head(inbox).id]
    /\ inbox' = Tail(inbox)
    /\ UNCHANGED <<fleetVars, up, storeVars, pc, req, idx, ret, histVars, rid,
                   seenAcked, view, isPrimary, roleLock, sender, stopFlag, el,
                   sent, resp>>

\* the map update of _handle, under the store lock
MlApply ==
    /\ up /\ rx.pc = "apply"
    /\ data' = ApplyEntry(data, rx.entry)
    /\ serial' = Append(serial, rx.entry)
    /\ rx' = [rx EXCEPT !.pc = "log"]
    /\ UNCHANGED <<fleetVars, up, lock, wal, snapshot, pc, req, idx, ret, rid,
                   seenAcked, view, nreq, kills, everSkipped, ackOrder, base,
                   isPrimary, roleLock, sender, stopFlag, inbox, el, sent, resp>>

\* self._store._append_wal(entry), then the end of `with self._store._lock`
MlAppendWal ==
    /\ up /\ rx.pc = "log"
    /\ wal' = WalAppended(wal, rx.entry, rx.i)
    /\ lock' = NoThread
    /\ ackOrder' = Append(ackOrder, rx.i)
    /\ rx' = [pc |-> "check", entry |-> NoEntry, i |-> 0]
    /\ UNCHANGED <<fleetVars, up, data, snapshot, pc, req, idx, ret, rid,
                   seenAcked, view, nreq, kills, everSkipped, serial, base,
                   isPrimary, roleLock, sender, stopFlag, inbox, el, sent, resp>>

\* SIGKILL of the node; inside the receiver's _append_wal a part of the
\* line, or the line without its newline, may have reached the file
MlKill(cut) ==
    /\ up /\ kills < MaxKills
    /\ cut # "none" => rx.pc = "log"
    /\ wal' = CASE cut = "none" -> wal
                [] cut = "part" -> Append(wal, PartToken(rx.entry, rx.i))
                [] cut = "whole" -> Append(wal, JsonToken(rx.entry, rx.i))
    /\ up' = FALSE
    /\ kills' = kills + 1
    /\ data' = EmptyMap
    /\ lock' = NoThread
    /\ serial' = <<>>
    /\ base' = EmptyMap
    /\ rx' = [pc |-> "check", entry |-> NoEntry, i |-> 0]
    /\ inbox' = <<>>
    /\ UNCHANGED <<fleetVars, snapshot, pc, req, idx, ret, rid, seenAcked, view,
                   nreq, everSkipped, ackOrder, isPrimary, roleLock, sender,
                   stopFlag, el, sent, resp>>

\* run_masterless_node: the store, the receiver and the broadcaster
InitInbound ==
    /\ StoreInit /\ FleetInit /\ ConnInit
    /\ isPrimary = TRUE
    /\ roleLock = NoThread
    /\ sender = TRUE
    /\ stopFlag = FALSE
    /\ inbox = <<>>
    /\ rx = [pc |-> "check", entry |-> NoEntry, i |-> 0]
    /\ el = "none"
    /\ sent = <<>>
    /\ resp = [t \in Threads |-> NoResponse]

\* A masterless node that peers send entries to.
NextInbound ==
    \/ \E r \in PlainRequests(nreq + 1) : PrimarySends(r)
    \/ RxCheck
    \/ MlRecv
    \/ RxAcquire
    \/ MlApply
    \/ MlAppendWal
    \/ \E cut \in {"none", "part", "whole"} : MlKill(cut)
    \/ Restart

SpecInbound == InitInbound /\ [][NextInbound]_vars

\* C28: after a kill and a restart of a masterless node, each key holds the
\* value the last replicated entry the receiver had finished with gave it
\* (or that of an entry logged after it)
C28_InboundIsDurable == (JustStarted /\ kills > 0) => Durable

\* ---------------------------------------------------------------------
\* One inbound replication session after the other, line by line:
\* ReplicationReceiver.run of cluster_node.py (kind "cluster", the listener
\* thread serves the session itself) and ReplicationReceiver.run / _handle
\* of masterless_node.py (a handler thread per session).  rx.pc is "check"
\* while the listener waits for a session, "recv" within a session, "dead"
\* when the listener thread is gone.

\* the entries a peer sends, and JSON objects that are not entries
WellFormedEntries ==
    {[op |-> "set", key |-> k, value |-> LineValue] : k \in Keys}
    \cup {[op |-> "delete", key |-> k] : k \in Keys}
    \cup {[op |-> "bulk", items |-> << <<k, LineValue>> >>] : k \in Keys}
MalformedEntries ==
    {[op |-> "set", key |-> k] : k \in Keys}
    \cup {[op |-> "set", value |-> LineValue]}
    \cup {[op |-> "bulk", items |-> its] :
            its \in {<<NotAPair>>} \cup {<< <<k, LineValue>>, NotAPair >> : k \in Keys}}

\* a line cut short by the end of the connection; bytes that are not JSON;
\* JSON that is not an object; JSON objects
ReplLines ==
    {[t |-> "cut"], [t |-> "text"], [t |-> "json", obj |-> FALSE]}
    \cup {[t |-> "json", obj |-> TRUE, e |-> e] :
            e \in WellFormedEntries \cup MalformedEntries}

BadReplLine(l) == l.t # "json" \/ ~l.obj \/ l.e \in MalformedEntries

\* the items of a bulk before the first one that `for k, v in` cannot unpack
RECURSIVE PairsBefore(_)
PairsBefore(its) ==
    IF its = <<>> \/ Head(its) = NotAPair THEN <<>>
    ELSE <<Head(its)>> \o PairsBefore(Tail(its))

\* the map after the receiver's `with self._store._lock` block ran on an
\* object, to its end or to the exception
AppliedOf(m, e) ==
    CASE e \in WellFormedEntries -> ApplyEntry(m, e)
      [] e.op = "bulk" -> ApplyItems(m, PairsBefore(e.items))
      [] OTHER -> m

\* The receiver reads one line.  ConnectionError and JSONDecodeError are
\* caught: the session ends.  AttributeError, KeyError and TypeError are
\* not caught: they end the thread that runs the session, which is the
\* listener itself on a cluster node.
SessionLine(l) ==
    /\ up /\ rx.pc = "recv" /\ nlines < MaxLines
    /\ lineIn' = l
    /\ nlines' = nlines + 1
    /\ IF l.t # "json"
       THEN /\ rx' = [rx EXCEPT !.pc = "check"]
            /\ UNCHANGED <<data, wal, nreq>>
       ELSE IF ~l.obj
       THEN /\ rx' = [rx EXCEPT !.pc = IF kind = "cluster" THEN "dead" ELSE "check"]
            /\ UNCHANGED <<data, wal, nreq>>
       ELSE /\ data' = AppliedOf(data, l.e)
            /\ IF l.e \in WellFormedEntries
               THEN /\ UNCHANGED rx
                    /\ wal' = IF kind = "masterless"
                              THEN WalAppended(wal, l.e, nreq + 1) ELSE wal
                    /\ nreq' = nreq + 1
               ELSE /\ rx' = [rx EXCEPT !.pc = IF kind = "cluster" THEN "dead" ELSE "check"]
                    /\ UNCHANGED <<wal, nreq>>
    /\ UNCHANGED <<fleetVarsButConn, up, lock, snapshot, pc, req, idx, ret, rid,
                   seenAcked, view, kills, everSkipped, ackOrder, serial, base,
                   isPrimary, roleLock, sender, stopFlag, inbox, el, sent, resp,
                   kind, connOpen, out, client, sideVars>>

\* conn, _ = self._sock.accept()
SessionOpens ==
    /\ up /\ rx.pc = "check" /\ ~stopFlag
    /\ rx' = [rx EXCEPT !.pc = "recv"]
    /\ UNCHANGED <<fleetVars, up, storeVars, pc, req, idx, ret, histVars, rid,
                   seenAcked, view, isPrimary, roleLock, sender, stopFlag,
                   inbox, el, sent, resp>>

\* the peer closed the connection, or sent nothing for a second
\* (socket.timeout is an OSError): the session ends
SessionCloses ==
    /\ up /\ rx.pc = "recv"
    /\ rx' = [rx EXCEPT !.pc = "check"]
    /\ UNCHANGED <<fleetVars, up, storeVars, pc, req, idx, ret, histVars, rid,
                   seenAcked, view, isPrimary, roleLock, sender, stopFlag,
                   inbox, el, sent, resp>>

InitSession ==
    /\ StoreInit /\ FleetInit /\ NodeInit(1)
    /\ \E k \in {"cluster", "masterless"} : ConnStart(k)
    /\ client = IdleClient

NextSession ==
    \/ \E l \in ReplLines : SessionLine(l)
    \/ SessionOpens
    \/ SessionCloses

SpecSession == InitSession /\ [][NextSession]_vars

\* C29: a replication line that is cut short, is not JSON, or is JSON but
\* not a well-formed entry ends its session with nothing applied, and the
\* listener goes on accepting sessions
C29_BadLineEndsOnlySession ==
    [][(nlines' = nlines + 1 /\ BadReplLine(lineIn')) =>
        (data' = data /\ wal' = wal /\ rx'.pc = "check")]_vars

\* C30: a client handler that holds a mutation it accepted (is_primary read
\* as true) finds the node's sender created and dialed, and every mutation
\* the node acknowledged was handed to that sender
C30_PromotionIsAtomic ==
    /\ \A t \in Threads :
         (IsMutating(req[t]) /\ pc[t] \in {"call", "apply", "wal", "snap", "send"})
            => sender
    /\ \A i \in 1..Len(ackOrder) : ackOrder[i] \in Range(sent)

(* --------------- promotion and the replication receiver ----------------- *)
\* C31: once the node has set is_primary it never again applies an entry
\* that came in on its replication port: no step of a primary's receiver
\* changes the map.
C31_PrimaryAppliesNoInbound ==
    [][(isPrimary /\ rx.pc = "apply") => data' = data]_vars

\* the step in which the election thread sets is_primary
Promoted == ~isPrimary /\ isPrimary'

\* C32: at the instant a secondary becomes primary, recovery from its data
\* directory (snapshot, then WAL) would rebuild exactly its in-memory map.
C32_FilesMatchMapAtPromotion ==
    [][Promoted => Recover(snapshot', wal') = data']_vars

(* ------------- primary/secondary node: kill and new life ---------------- *)
\* no request in progress, no entry in the receiver's hands, no promotion
\* under way
NodeQuiescent ==
    /\ \A t \in Threads : pc[t] = "idle"
    /\ lock = NoThread /\ roleLock = NoThread
    /\ rx.pc \in {"none", "check", "recv", "exit"}

\* SIGKILL of the node process at a quiescent point: memory, the threads and
\* the replication session are gone, the files stay.  `el` keeps telling
\* node 0 ("none") from the others.
ClusterKill ==
    /\ up /\ kills < MaxKills
    /\ NodeQuiescent
    /\ up' = FALSE
    /\ kills' = kills + 1
    /\ data' = EmptyMap
    /\ lock' = NoThread
    /\ pc' = [t \in Threads |-> "idle"]
    /\ req' = [t \in Threads |-> NoRequest]
    /\ idx' = [t \in Threads |-> 0]
    /\ ret' = [t \in Threads |-> None]
    /\ rid' = [t \in Threads |-> 0]
    /\ seenAcked' = [t \in Threads |-> {}]
    /\ view' = [t \in Threads |-> EmptyMap]
    /\ resp' = [t \in Threads |-> NoResponse]
    /\ serial' = <<>>
    /\ base' = EmptyMap
    /\ isPrimary' = FALSE
    /\ roleLock' = NoThread
    /\ sender' = FALSE
    /\ stopFlag' = FALSE
    /\ inbox' = <<>>
    /\ rx' = [pc |-> "none", entry |-> NoEntry, i |-> 0]
    /\ el' = IF el = "none" THEN "none" ELSE "sleep"
    /\ UNCHANGED <<fleetVars, wal, snapshot, nreq, everSkipped, ackOrder, sent>>

\* run_cluster_node on the same data directory with the same node id:
\* KVStore(data_dir) recovers, is_primary = (node_id == 0), and a node other
\* than 0 starts a receiver and the election thread.
ClusterStart ==
    /\ ~up
    /\ up' = TRUE
    /\ data' = Recover(snapshot, wal)
    /\ base' = Recover(snapshot, wal)
    /\ isPrimary' = (el = "none")
    /\ sender' = (el = "none")
    /\ rx' = [pc |-> IF el = "none" THEN "none" ELSE "check", entry |-> NoEntry, i |-> 0]
    /\ UNCHANGED <<fleetVars, lock, wal, snapshot, pc, req, idx, ret, nreq, rid, kills,
                   everSkipped, ackOrder, seenAcked, serial, view,
                   roleLock, stopFlag, inbox, el, sent, resp>>

\* the single-key mutations, as a client of this node or a client of the
\* primary it follows sends them
LifeRequests(n) == {r \in SetRequests(n) \cup DeleteRequests : ~r.debug}

\* One node through several lives: client mutations, the receiver and the
\* election thread, kills between file operations and restarts.
NextLives ==
    \/ \E r \in LifeRequests(nreq + 1) : ClusterRecv(Main, r)
    \/ Dispatch(Main)
    \/ Acquire(Main)
    \/ Apply(Main)
    \/ AppendWal(Main)
    \/ ClusterSaveSnapshot(Main)
    \/ ClusterSend(Main)
    \/ Reply(Main)
    \/ ClusterAnswer(Main)
    \/ \E r \in LifeRequests(nreq + 1) : PrimarySends(r)
    \/ RxCheck
    \/ RxRecv
    \/ RxAcquire
    \/ RxApply
    \/ ElectBegin
    \/ ElectStopReceiver
    \/ ElectSetPrimary
    \/ ElectStartSender
    \/ ClusterKill
    \/ ClusterStart

SpecLives == InitCluster /\ [][NextLives]_vars

\* the node was promoted in this life (node 0 is never promoted)
PromotedPrimary == isPrimary /\ el # "none"

\* the first client mutation of this life is about to be appended
FirstAppend == \E t \in Threads : pc[t] = "wal" /\ Len(serial) = 1

\* C33: log rebirth on promotion.  When a newly promoted primary, its
\* receiver thread ended, whose map holds replicated state (it is no longer
\* the map recovered at start) appends its first WAL entry, its WAL is empty
\* or the snapshot on disk is the one of the map the mutation was applied
\* to: the append is never made next to a WAL of an earlier life and a
\* snapshot without the replicated state.
C33_LogRebirthOnPromotion ==
    [][(/\ PromotedPrimary /\ rx.pc = "exit"
        /\ FirstAppend /\ wal' # wal
        /\ ApplyEntry(base, serial[1]) # data)
          => (wal = <<>> \/ ApplyEntry(LoadSnapshot(snapshot), serial[1]) = data)]_vars

\* C40: recovery reproduces the acknowledged state on a node with any role
\* history.  When a primary that completed at least one client mutation in
\* this life, and whose snapshot on disk is its current map, is killed at a
\* quiescent point, recovery from the files the kill leaves rebuilds exactly
\* the map it had at the kill: no key reappears with a value from the WAL
\* entries of an earlier life.
C40_RecoveryAfterAnyRoleHistory ==
    [][(/\ up /\ ~up' /\ isPrimary /\ serial # <<>>
        /\ LoadSnapshot(snapshot) = data)
          => Recover(snapshot', wal') = data]_vars

(* ----------------------- more than one primary -------------------------- *)
\* the nodes that are up and would answer a role request with primary true
Primaries == {n \in Nodes : nodeUp[n] /\ nodeRole[n]}

\* C34: multi-primary is only transient: whenever two or more nodes are
\* primary at once, the cluster eventually reaches a state in which at most
\* one node that is up reports is_primary true.
C34_MultiPrimaryIsTransient ==
    (Cardinality(Primaries) >= 2) ~> (Cardinality(Primaries) <= 1)

(* ------------------------ the full-text index --------------------------- *)
\* the texts stored as values and asked as queries
Texts == {"", "x", "X y", "y"}

\* _tokenize: lowercase, then the \b\w+\b matches in order
Tokenize(text) ==
    CASE text = "" -> <<>>
      [] text = "x" -> <<"x">>
      [] text = "y" -> <<"y">>
      [] text = "X y" -> <<"x", "y">>

\* dict.get(w, set())
Postings(ix, w) == IF w \in DOMAIN ix THEN ix[w] ELSE {}

\* FullTextIndex.index_value: the key leaves every posting set (the emptied
\* sets stay in the dict), then joins the set of each word of the value
IndexValue(ix, k, v) ==
    LET words == Range(Tokenize(v)) IN
    [w \in DOMAIN ix \cup words |->
        (Postings(ix, w) \ {k}) \cup (IF w \in words THEN {k} ELSE {})]

\* FullTextIndex.remove_key: the key leaves every posting set, the emptied
\* sets are dropped
RemoveKey(ix, k) ==
    [w \in {u \in DOMAIN ix : ix[u] \ {k} # {}} |-> ix[w] \ {k}]

RECURSIVE Intersect(_, _)
\* result = sets[0]; for s in sets[1:]: result = result & s
Intersect(ix, words) ==
    IF Len(words) = 1 THEN Postings(ix, words[1])
    ELSE Postings(ix, words[1]) \cap Intersect(ix, Tail(words))

\* FullTextIndex.search, its list taken as a set
Search(ix, query) ==
    IF Tokenize(query) = <<>> THEN {} ELSE Intersect(ix, Tokenize(query))

RECURSIVE IndexItems(_, _)
\* the loop of bulk_set, as far as the index goes
IndexItems(ix, items) ==
    IF items = <<>> THEN ix
    ELSE IndexItems(IndexValue(ix, items[1][1], items[1][2]), Tail(items))

RECURSIVE IndexAll(_, _, _)
\* the end of _recover: index_value for every pair of the recovered map
IndexAll(ix, m, ks) ==
    IF ks = {} THEN ix
    ELSE LET k == CHOOSE x \in ks : TRUE
         IN IndexAll(IF m[k] = Missing THEN ix ELSE IndexValue(ix, k, m[k]),
                     m, ks \ {k})

\* the mutations of the indexed store
TextItemLists == UNION {[1..n -> Keys \X Texts] : n \in 1..MaxItems}
TextEntries ==
    [op : {"set"}, key : Keys, value : Texts] \cup [op : {"delete"}, key : Keys]
        \cup [op : {"bulk"}, items : TextItemLists]

\* KVStore.set, delete or bulk_set with indexes enabled, start to end under
\* the store lock: the map, the index, the WAL line, the snapshot
IndexedMutation(e) ==
    /\ up /\ nreq < MaxOps
    /\ nreq' = nreq + 1
    /\ data' = ApplyEntry(data, e)
    /\ ftIndex' = CASE e.op = "set" -> IndexValue(ftIndex, e.key, e.value)
                    [] e.op = "delete" -> RemoveKey(ftIndex, e.key)
                    [] e.op = "bulk" -> IndexItems(ftIndex, e.items)
    /\ wal' = WalAppended(wal, e, nreq + 1)
    /\ snapshot' = SnapshotWritten(snapshot, data', FALSE)
    /\ UNCHANGED <<fleetVarsButConn, clusterVars, up, lock, pc, req, idx, ret, rid,
                   kills, everSkipped, ackOrder, seenAcked, serial, base, view,
                   kind, connOpen, lineIn, nlines, out, client, streamed>>

\* a kill between two operations, and KVStore(data_dir, enable_indexes=True)
\* on the same directory: recovery, then the index built from the map
IndexedRestart ==
    /\ up /\ kills < MaxKills
    /\ kills' = kills + 1
    /\ data' = Recover(snapshot, wal)
    /\ ftIndex' = IndexAll(NoIndex, Recover(snapshot, wal), Keys)
    /\ UNCHANGED <<fleetVarsButConn, clusterVars, up, lock, wal, snapshot, pc, req,
                   idx, ret, rid, nreq, everSkipped, ackOrder, seenAcked, serial,
                   base, view, kind, connOpen, lineIn, nlines, out, client, streamed>>

NextIndexed ==
    \/ \E e \in TextEntries : IndexedMutation(e)
    \/ IndexedRestart

SpecIndexed == Init /\ [][NextIndexed]_vars

\* the keys whose stored value holds every word of the query
Matching(m, query) ==
    {k \in Keys : m[k] # Missing /\ Range(Tokenize(query)) \subseteq Range(Tokenize(m[k]))}

\* C35: index consistency.  After any sequence of set, delete and bulk_set
\* and after any recovery, for every query text, one without any token
\* included, search returns exactly the keys whose stored value's token set
\* contains every token of the query.
C35_IndexMatchesMap == \A q \in Texts : Search(ftIndex, q) = Matching(data, q)

(* ------------------------- a failed mutation ---------------------------- *)
\* the map as it was when the request in hand took the lock: the entries
\* applied in this life but the last
MapBefore == ApplyAll(base, SubSeq(serial, 1, Len(serial) - 1))

\* C36: a failed mutation changes nothing.  When a set, delete or bulk_set
\* is about to be answered with ok:false, the in-memory map is exactly as
\* it was before the request.
C36_FailedMutationChangesNothing ==
    \A t \in Threads : pc[t] = "raise" => data = MapBefore

(* ------------------ the replication stream, read by read ---------------- *)
\* ReplicationSender.send on the primary: sendall of the entry's line on the
\* session to this node's receiver.  On a session the receiver has closed
\* the line reaches nobody: the sender drops the connection at the OSError
\* and never dials again.
StreamSend(r) ==
    /\ up /\ rx.pc \notin {"none", "exit"}
    /\ nreq < MaxOps
    /\ EntryOf(r) # [op |-> "bulk", items |-> <<>>]
    /\ nreq' = nreq + 1
    /\ inbox' = IF connOpen THEN Append(inbox, [e |-> EntryOf(r), id |-> nreq + 1])
                           ELSE inbox
    /\ streamed' = Append(streamed, EntryOf(r))
    /\ UNCHANGED <<fleetVarsButConn, up, storeVars, pc, req, idx, ret, rid, kills,
                   everSkipped, ackOrder, seenAcked, serial, base, view,
                   isPrimary, roleLock, sender, stopFlag, rx, el, sent, resp,
                   kind, connOpen, lineIn, nlines, out, client, ftIndex>>

\* _recv_line with an empty buf: sock.recv(4096) returns the bytes of the
\* first n lines waiting on the session; `line, _ = buf.split(b"\n", 1)`
\* keeps the first line and the rest is dropped with the local buf.
StreamRecv(n) ==
    /\ up /\ rx.pc = "recv"
    /\ n \in 1..Len(inbox)
    /\ rx' = [pc |-> "lock", entry |-> Head(inbox).e, i |-> 1]
    /\ inbox' = SubSeq(inbox, n + 1, Len(inbox))
    /\ UNCHANGED <<fleetVars, up, storeVars, pc, req, idx, ret, histVars, rid, seenAcked,
                   view, isPrimary, roleLock, sender, stopFlag, el, sent, resp>>

InitStream == StoreInit /\ FleetInit /\ NodeInit(1) /\ ConnInit

\* A secondary's receiver on one session, the primary sending at its pace.
NextStream ==
    \/ \E r \in PlainRequests(nreq + 1) : StreamSend(r)
    \/ RxCheck
    \/ \E n \in 1..MaxOps : StreamRecv(n)
    \/ RxAcquire
    \/ RxApply

SpecStream == InitStream /\ [][NextStream]_vars

\* C37: no entry is lost on the replication stream, however the lines are
\* grouped into network reads: once the receiver has read all that was sent
\* and holds no entry, its map is the one the sent entries give, applied in
\* order.
C37_NoEntryLostOnStream ==
    (inbox = <<>> /\ rx.pc \in {"check", "recv"}) => data = ApplyAll(EmptyMap, streamed)

(* ---------------------- an idle replication session --------------------- *)
\* _recv_line(conn, timeout=1.0) with nothing to read for a second:
\* sock.recv raises socket.timeout, an OSError, which the receiver's except
\* clause takes for the end of the session; `finally: conn.close()`
IdleTimeout ==
    /\ up /\ rx.pc = "recv" /\ connOpen
    /\ inbox = <<>>
    /\ connOpen' = FALSE
    /\ rx' = [rx EXCEPT !.pc = "check"]
    /\ UNCHANGED <<fleetVarsButConn, up, storeVars, pc, req, idx, ret, histVars, rid,
                   seenAcked, view, isPrimary, roleLock, sender, stopFlag,
                   inbox, el, sent, resp, kind, lineIn, nlines, out, client,
                   sideVars>>

\* A secondary's receiver on one healthy session, each read one line, the
\* primary sending at its pace with pauses of any length.
NextIdle ==
    \/ \E r \in PlainRequests(nreq + 1) : StreamSend(r)
    \/ RxCheck
    \/ RxRecv
    \/ RxAcquire
    \/ RxApply
    \/ IdleTimeout

SpecIdle == InitStream /\ [][NextIdle]_vars

\* nothing is unread and the receiver holds no entry
StreamDrained == up /\ inbox = <<>> /\ rx.pc \in {"check", "recv"}

\* C38: an idle replication session stays usable.  With sender and receiver
\* alive on a healthy connection, every entry the primary has broadcast,
\* after pauses of any length, has been applied once the receiver is
\* waiting again.
C38_IdleSessionStaysUsable ==
    (StreamDrained /\ ~stopFlag) =>
        \A k \in Keys : data[k] = ApplyAll(EmptyMap, streamed)[k]

(* ----------------------- writes after a torn tail ----------------------- *)
\* the line of the WAL file that token i is on
LineOf(i) == Cardinality({j \in 1..(i - 1) : wal[j].t = "NL"}) + 1

\* token i is a whole entry line, written after the torn part of an append
\* that a kill cut short
AppendedAfterTornTail(i) ==
    /\ wal[i].t = "J"
    /\ i < Len(wal) /\ wal[i + 1].t = "NL"
    /\ \E j \in 1..(i - 1) : wal[j].t = "P"

\* C39: a discarded torn tail does not mask later writes.  Every entry that
\* a restarted store appended to the WAL after a recovery ignored a
\* truncated last line is on a line that decodes and that the replay of a
\* later recovery reaches.
C39_TornTailMasksNothing ==
    \A i \in 1..Len(wal) :
        AppendedAfterTornTail(i) =>
            (Decodable(SplitLines(wal, <<>>)[LineOf(i)]) /\ LineOf(i) <= GoodPrefix)

====
